---- MODULE Spec2Model ----
(***************************************************************************)
(* Model of the EPG/playlist matching scripts of Kodi-R-working:           *)
(*   src/bin/match_epg_m3u.py           (variant "match")                  *)
(*   src/bin/sd_daily_match_epg_m3u.py  (variant "sd")                     *)
(* of the favourites writer src/bin/prune_m3u.py, of the EPG consolidation *)
(* src/bin/prune_epg_from_country.py and of the Schedules Direct fetch     *)
(* src/bin/sd_fetch_favourites_epg.py.                                     *)
(*                                                                         *)
(* A Python string is a sequence of one-character strings; the two         *)
(* non-ASCII code points the model uses are written "U+00E9" (e with       *)
(* acute), "U+00F8" (o with stroke) and "U+0301" (combining acute).        *)
(***************************************************************************)
EXTENDS Integers, Sequences, FiniteSets, TLC

VARIABLES
    norm,              \* SpecNorm: the string norm_name is applied to, and its results
    variant,           \* which script runs: "match", "sd" or "prune_epg"
    pc,                \* position in the script's top-level code
    m3u_file,          \* input playlist: sequence of lines
    epg_docs,          \* input EPG documents
    alias_csv,         \* input alias table: sequence of CSV rows
    THRESH,            \* acceptance threshold, in thousandths
    m3u,               \* parse_m3u's result
    chan_map,          \* id -> set of display names
    name_index,        \* normalized display name -> set of ids
    id_suffix_index,   \* two-letter suffix -> set of ids
    aliases,           \* read_aliases' result
    rows,              \* the rows with their verdicts
    lines,             \* the rewritten playlist
    matched_ids,       \* sd: the ids applied while rewriting
    epg_out,           \* the merged EPG: sequence of elements
    prune_pc,          \* prune_m3u.py: position in main
    favs,              \* prune_m3u.py: the rows of tv_favourites.csv, in memory
    tv_fav,            \* prune_m3u.py: the rows of tv_favourites.csv, on disk
    added,             \* prune_m3u.py: the number of rows the last sync appended
    runs,              \* prune_m3u.py: the number of runs started
    master_paths,      \* prune_m3u.py: the master playlists, highest priority first
    master_lookup,     \* prune_m3u.py: _parse_master_playlist's result
    pruned,            \* prune_m3u.py: the playlist written and the three counters
    xml_paths,         \* the files of the EPG directory a catalog is built from
    cat_pc,            \* position in the catalog build
    id2rec,            \* prune_epg_from_country.py: id -> record
    name2rec,          \* prune_epg_from_country.py: normalized name -> record
    name_keys,         \* prune_epg_from_country.py: the normalized names, in order
    tv,                \* prune_epg_from_country.py: the elements consolidate writes
    fav_csv,           \* match_epg_m3u.py: tv_favourites.csv as collect_country_codes finds it
    country_codes,     \* match_epg_m3u.py: collect_country_codes' result
    epg_dir,           \* match_epg_m3u.py: the files of the EPG directory, by country code
    epg_files,         \* match_epg_m3u.py: ensure_country_epgs' result
    m3u_in,            \* match_epg_m3u.py: the input playlist as parse_m3u finds it
    outputs,           \* the output files written so far
    fetch_pc,          \* sd_fetch_favourites_epg.py: position in main
    fetch_args,        \* sd_fetch_favourites_epg.py: the options of the run
    station_ids,       \* sd_fetch_favourites_epg.py: the resolved station ids
    coverage,          \* sd_fetch_favourites_epg.py: the coverage report
    grab,              \* sd_fetch_favourites_epg.py: run_tv_grab's result
    sd_files,          \* sd_fetch_favourites_epg.py: the files at output_xml and output_path
    ret                \* sd_fetch_favourites_epg.py: main's return value

pruneVars == <<prune_pc, favs, tv_fav, added, runs, master_paths, master_lookup, pruned>>

catVars == <<xml_paths, cat_pc, id2rec, name2rec, name_keys, tv>>

runVars == <<fav_csv, country_codes, epg_dir, epg_files, m3u_in>>

fetchVars == <<fetch_pc, fetch_args, station_ids, coverage, grab, sd_files, ret>>

idleVars == <<catVars, runVars, fetchVars>>

auxVars == <<idleVars, outputs>>

vars == <<auxVars, pruneVars, norm, variant, pc, m3u_file, epg_docs, alias_csv, THRESH, m3u,
          chan_map, name_index, id_suffix_index, aliases, rows, lines, matched_ids, epg_out>>

pipeVars == <<variant, pc, m3u_file, epg_docs, alias_csv, THRESH, m3u,
              chan_map, name_index, id_suffix_index, aliases, rows, lines, matched_ids, epg_out>>

(***************************************************************************)
(* Characters and the string methods the scripts use.                      *)
(***************************************************************************)
LowerSeq == <<"a","b","c","d","e","f","g","h","i","j","k","l","m",
              "n","o","p","q","r","s","t","u","v","w","x","y","z">>

UpperSeq == <<"A","B","C","D","E","F","G","H","I","J","K","L","M",
              "N","O","P","Q","R","S","T","U","V","W","X","Y","Z">>

LowerSet == {LowerSeq[i] : i \in DOMAIN LowerSeq}

UpperSet == {UpperSeq[i] : i \in DOMAIN UpperSeq}

DigitSet == {"0","1","2","3","4","5","6","7","8","9"}

WhiteSpace == {" ", "\t", "\n"}

\* [a-z0-9]
AlnumLower == LowerSet \cup DigitSet

\* \w of a str pattern: Unicode letters and digits, and the underscore
IsWord(c) == c \in LowerSet \cup UpperSet \cup DigitSet \cup {"_", "U+00E9", "U+00F8"}

SetMin(S) == CHOOSE x \in S : \A y \in S : x <= y

SetMax(S) == CHOOSE x \in S : \A y \in S : x >= y

\* str.lower() of one character
LowerChar(c) ==
    IF c \in UpperSet THEN LowerSeq[CHOOSE i \in DOMAIN UpperSeq : UpperSeq[i] = c] ELSE c

\* str.lower()
lower(s) == [i \in 1..Len(s) |-> LowerChar(s[i])]

\* str.strip()
strip(s) ==
    LET keep == {i \in 1..Len(s) : s[i] \notin WhiteSpace}
    IN IF keep = {} THEN <<>> ELSE SubSeq(s, SetMin(keep), SetMax(keep))

\* str.startswith / str.endswith
startswith(s, p) == Len(p) <= Len(s) /\ SubSeq(s, 1, Len(p)) = p

endswith(s, p) == Len(p) <= Len(s) /\ SubSeq(s, Len(s) - Len(p) + 1, Len(s)) = p

\* whether p occurs in s at position i
MatchAt(s, i, p) == i + Len(p) - 1 <= Len(s) /\ SubSeq(s, i, i + Len(p) - 1) = p

\* p in s
contains(s, p) == \E i \in 1..(Len(s) + 1) : MatchAt(s, i, p)

RECURSIVE replace_from(_, _, _, _)
replace_from(s, i, old, new) ==
    IF i > Len(s) THEN <<>>
    ELSE IF MatchAt(s, i, old) THEN new \o replace_from(s, i + Len(old), old, new)
    ELSE <<s[i]>> \o replace_from(s, i + 1, old, new)

\* str.replace(old, new), old non-empty
replace(s, old, new) == replace_from(s, 1, old, new)

\* str.split(): the maximal runs of non-whitespace, as a set
split_set(s) ==
    {SubSeq(s, i, j) : <<i, j>> \in
        {p \in (1..Len(s)) \X (1..Len(s)) :
            /\ p[1] <= p[2]
            /\ \A k \in p[1]..p[2] : s[k] \notin WhiteSpace
            /\ (p[1] = 1 \/ s[p[1] - 1] \in WhiteSpace)
            /\ (p[2] = Len(s) \/ s[p[2] + 1] \in WhiteSpace)}}

(***************************************************************************)
(* Name Normalizer: strip_accents, norm_name, tokens, jaccard.             *)
(***************************************************************************)
\* unicodedata.normalize('NFKD', c) of one character
NFKD(c) == IF c = "U+00E9" THEN <<"e", "U+0301">> ELSE <<c>>

\* unicodedata.combining(c) != 0
combining(c) == c = "U+0301"

RECURSIVE strip_accents_from(_, _)
strip_accents_from(s, i) ==
    IF i > Len(s) THEN <<>>
    ELSE SelectSeq(NFKD(s[i]), LAMBDA c : ~combining(c)) \o strip_accents_from(s, i + 1)

strip_accents(s) == strip_accents_from(s, 1)

\* \b between positions i-1 and i of s
WordBoundary(s, i) ==
    LET before == i > 1 /\ IsWord(s[i - 1])
        after  == i <= Len(s) /\ IsWord(s[i])
    IN before # after

\* the alternatives of the quality/codec pattern, in the pattern's order
StopList == << <<"u","h","d">>, <<"f","h","d">>, <<"h","d">>, <<"s","d">>, <<"4","k">>,
               <<"h","d","r">>, <<"h","e","v","c">>, <<"h",".","2","6","5">>,
               <<"h","2","6","5">>, <<"1","0","8","0","p">>, <<"7","2","0","p">>,
               <<"2","1","6","0","p">> >>

\* length of the match of \b(uhd|...|2160p)\b at position i, 0 if none
StopMatchLen(s, i) ==
    LET ok == {k \in DOMAIN StopList :
                  /\ WordBoundary(s, i)
                  /\ MatchAt(s, i, StopList[k])
                  /\ WordBoundary(s, i + Len(StopList[k]))}
    IN IF ok = {} THEN 0 ELSE Len(StopList[SetMin(ok)])

RECURSIVE sub_stoplist_from(_, _)
\* re.sub(r'\b(uhd|fhd|hd|sd|4k|hdr|hevc|h\.265|h265|1080p|720p|2160p)\b', ' ', s), from position i on
sub_stoplist_from(s, i) ==
    IF i > Len(s) THEN <<>>
    ELSE LET n == StopMatchLen(s, i)
         IN IF n > 0 THEN <<" ">> \o sub_stoplist_from(s, i + n)
            ELSE <<s[i]>> \o sub_stoplist_from(s, i + 1)

RECURSIVE sub_brackets_from(_, _)
\* re.sub(r'[\(\[][^)\]]*[\)\]]', ' ', s), from position i on
sub_brackets_from(s, i) ==
    IF i > Len(s) THEN <<>>
    ELSE LET closers == {j \in (i + 1)..Len(s) : s[j] \in {")", "]"}}
         IN IF s[i] \in {"(", "["} /\ closers # {}
            THEN <<" ">> \o sub_brackets_from(s, SetMin(closers) + 1)
            ELSE <<s[i]>> \o sub_brackets_from(s, i + 1)

RECURSIVE sub_lead_plus_from(_, _)
\* re.sub(r'(?<!\w)\+(?=\d)', ' plus ', s), from position i on
sub_lead_plus_from(s, i) ==
    IF i > Len(s) THEN <<>>
    ELSE IF /\ s[i] = "+"
            /\ ~(i > 1 /\ IsWord(s[i - 1]))
            /\ i < Len(s) /\ s[i + 1] \in DigitSet
         THEN <<" ","p","l","u","s"," ">> \o sub_lead_plus_from(s, i + 1)
         ELSE <<s[i]>> \o sub_lead_plus_from(s, i + 1)

\* end of the digit run that starts at position i
DigitRunEnd(s, i) ==
    SetMax({j \in (i - 1)..Len(s) : \A k \in i..j : s[k] \in DigitSet})

RECURSIVE sub_plus_digits_from(_, _)
\* re.sub(r'\b\+(\d+)\b', r' plus \1', s), from position i on
sub_plus_digits_from(s, i) ==
    IF i > Len(s) THEN <<>>
    ELSE LET e == DigitRunEnd(s, i + 1)
         IN IF /\ s[i] = "+"
               /\ WordBoundary(s, i)
               /\ e > i
               /\ WordBoundary(s, e + 1)
            THEN <<" ","p","l","u","s"," ">> \o SubSeq(s, i + 1, e)
                     \o sub_plus_digits_from(s, e + 1)
            ELSE <<s[i]>> \o sub_plus_digits_from(s, i + 1)

RECURSIVE sub_runs_from(_, _, _)
sub_runs_from(s, i, inRun) ==
    IF i > Len(s) THEN <<>>
    ELSE IF inRun[s[i]]
         THEN LET e == SetMax({j \in i..Len(s) : \A k \in i..j : inRun[s[k]]})
              IN <<" ">> \o sub_runs_from(s, e + 1, inRun)
         ELSE <<s[i]>> \o sub_runs_from(s, i + 1, inRun)

\* re.sub(r'[^a-z0-9]+', ' ', s)
sub_non_alnum(s) ==
    sub_runs_from(s, 1, [c \in {s[i] : i \in 1..Len(s)} |-> c \notin AlnumLower])

\* re.sub(r'\s+', ' ', s)
sub_spaces(s) ==
    sub_runs_from(s, 1, [c \in {s[i] : i \in 1..Len(s)} |-> c \in WhiteSpace])

\* s.lower().strip(), strip_accents, and the two replace calls
norm_head(s) ==
    replace(replace(strip_accents(strip(lower(s))), <<"&">>, <<" ","a","n","d"," ">>),
            <<"+">>, <<" ","p","l","u","s"," ">>)

\* the patterns from the stoplist on, the final strip included
norm_tail(s) ==
    strip(sub_spaces(sub_non_alnum(
        sub_plus_digits_from(sub_brackets_from(sub_stoplist_from(s, 1), 1), 1))))

\* norm_name of script v: the leading-plus pattern is in match_epg_m3u.py only
norm_name_of(v, s) ==
    norm_tail(IF v = "sd" THEN norm_head(s) ELSE sub_lead_plus_from(norm_head(s), 1))

\* norm_name of match_epg_m3u.py
norm_name(s) == norm_name_of("match", s)

\* norm_name of sd_daily_match_epg_m3u.py
sd_norm_name(s) == norm_name_of("sd", s)

\* set(norm_name(s).split())
name_tokens(v, s) == split_set(norm_name_of(v, s))

\* tokens(s)
tokens(s) == IF s = <<>> THEN {} ELSE name_tokens("match", s)

\* jaccard(a, b) as the fraction <<|a & b|, |a | b|>>; 0.0 is <<0, 1>>
jaccard(a, b) ==
    IF a = {} \/ b = {} THEN <<0, 1>>
    ELSE <<Cardinality(a \cap b), Cardinality(a \cup b)>>

FracGe(x, y) == x[1] * y[2] >= y[1] * x[2]

(***************************************************************************)
(* Python values: None, truthiness, dicts.                                 *)
(***************************************************************************)
None == <<"<None>">>

Truthy(x) == x # None /\ x # <<>>

\* x or y
Or(x, y) == IF Truthy(x) THEN x ELSE y

\* a dict whose iteration order matters: the sequence of its items, in insertion order
DictKeys(d) == {d[i].k : i \in DOMAIN d}

DictGet(d, key) == d[CHOOSE i \in DOMAIN d : d[i].k = key].v

\* d[key] = val: an existing key keeps its place
DictPut(d, key, val) ==
    IF key \in DictKeys(d)
    THEN [i \in DOMAIN d |-> IF d[i].k = key THEN [k |-> key, v |-> val] ELSE d[i]]
    ELSE Append(d, [k |-> key, v |-> val])

\* a dict or defaultdict whose order is never observed: a function
Get(f, key, default) == IF key \in DOMAIN f THEN f[key] ELSE default

Put(f, key, val) == [x \in DOMAIN f \cup {key} |-> IF x = key THEN val ELSE f[x]]

\* defaultdict(set): f[key].add(e)
AddTo(f, key, e) == Put(f, key, Get(f, key, {}) \cup {e})

EmptyMap == [x \in {} |-> {}]

(***************************************************************************)
(* Playlist Model: parse_m3u.                                              *)
(***************************************************************************)
QUOTE == "\""

\* ends k of a match of (\w+?)="(.*?)" whose key ends at k, not before position i
AttrKeyEnds(s, i) ==
    {k \in i..(Len(s) - 3) :
        /\ IsWord(s[k])
        /\ s[k + 1] = "="
        /\ s[k + 2] = QUOTE
        /\ \E q \in (k + 3)..Len(s) : s[q] = QUOTE}

RECURSIVE findall_attrs(_, _)
\* re.findall(r'(\w+?)="(.*?)"', s) from position i on: the (key, value) pairs in order
findall_attrs(s, i) ==
    LET ends == AttrKeyEnds(s, i)
    IN IF ends = {} THEN <<>>
       ELSE LET k == SetMin(ends)
                p == SetMin({j \in i..k : \A m \in j..k : IsWord(s[m])})
                q == SetMin({j \in (k + 3)..Len(s) : s[j] = QUOTE})
            IN <<[key |-> SubSeq(s, p, k), val |-> SubSeq(s, k + 3, q - 1)]>>
                   \o findall_attrs(s, q + 1)

\* dict(pairs): a later pair replaces an earlier one with the same key
dict_of(pairs) ==
    [key \in {pairs[i].key : i \in DOMAIN pairs} |->
        pairs[SetMax({i \in DOMAIN pairs : pairs[i].key = key})].val]

\* line.split(",", 1)[1].strip() if "," in line else ""
name_of(line) ==
    LET commas == {i \in 1..Len(line) : line[i] = ","}
    IN IF commas = {} THEN <<>>
       ELSE strip(SubSeq(line, SetMin(commas) + 1, Len(line)))

K_tvg_id_h == <<"t","v","g","-","i","d">>

K_tvg_id_u == <<"t","v","g","_","i","d">>

K_tvgid == <<"t","v","g","i","d">>

K_tvg_name_h == <<"t","v","g","-","n","a","m","e">>

K_tvg_name_u == <<"t","v","g","_","n","a","m","e">>

K_group_title_h == <<"g","r","o","u","p","-","t","i","t","l","e">>

K_group_title_u == <<"g","r","o","u","p","_","t","i","t","l","e">>

EXTINF == <<"#","E","X","T","I","N","F",":">>

\* the record parse_m3u builds from a #EXTINF: line whose attributes are attrs:
\* match_epg_m3u.py nests attrs.get(key, default), sd_daily_match_epg_m3u.py
\* chains attrs.get(key) or ...
extinf_fields(v, line, attrs) ==
    [extinf   |-> line,
     name     |-> name_of(line),
     tvg_id   |-> strip(IF v = "sd"
                        THEN Or(Get(attrs, K_tvg_id_h, None),
                                Or(Get(attrs, K_tvg_id_u, None),
                                   Or(Get(attrs, K_tvgid, None), <<>>)))
                        ELSE Get(attrs, K_tvg_id_h,
                                 Get(attrs, K_tvg_id_u, Get(attrs, K_tvgid, <<>>)))),
     tvg_name |-> IF v = "sd"
                  THEN Or(Get(attrs, K_tvg_name_h, None), Or(Get(attrs, K_tvg_name_u, None), <<>>))
                  ELSE Get(attrs, K_tvg_name_h, Get(attrs, K_tvg_name_u, <<>>)),
     group    |-> IF v = "sd"
                  THEN Or(Get(attrs, K_group_title_h, None),
                          Or(Get(attrs, K_group_title_u, None), <<>>))
                  ELSE Get(attrs, K_group_title_h, Get(attrs, K_group_title_u, <<>>)),
     url      |-> None]

extinf_record(v, line) == extinf_fields(v, line, dict_of(findall_attrs(line, 1)))

RECURSIVE parse_lines(_, _, _, _, _)
\* the loop of parse_m3u over the file's lines, from line i, with out and cur
\* (cur is <<>> for None, <<record>> otherwise)
parse_lines(v, file, i, out, cur) ==
    IF i > Len(file) THEN out
    ELSE LET line == file[i]
         IN IF startswith(line, EXTINF)
            THEN parse_lines(v, file, i + 1, out,
                     <<extinf_record(v, line)>>)
            ELSE IF line # <<>> /\ ~startswith(line, <<"#">>) /\ cur # <<>>
            THEN parse_lines(v, file, i + 1,
                     Append(out, [cur[1] EXCEPT !.url = strip(line)]), <<>>)
            ELSE parse_lines(v, file, i + 1, out, cur)

\* parse_m3u(path) of script v
parse_m3u(v, file) == parse_lines(v, file, 1, <<>>, <<>>)

(***************************************************************************)
(* EPG Channel Catalog: load_xml_channels / load_sd_xml_channels.          *)
(* An EPG document is [channels, programmes]; a channel element is         *)
(* [id, dnames] (its id attribute and the texts of its display-name        *)
(* children), a programme element is [channel, start].                     *)
(***************************************************************************)
\* the group of re.search(r'\.([a-z]{2})$', cid), None without a match
id_suffix(cid) ==
    LET n == Len(cid)
    IN IF n >= 3 /\ cid[n - 2] = "." /\ cid[n - 1] \in LowerSet /\ cid[n] \in LowerSet
       THEN SubSeq(cid, n - 1, n)
       ELSE None

\* [(dn.text or "").strip() for dn in ... if (dn.text or "").strip()], or [cid]
display_names(ch, cid) ==
    LET dnames == SelectSeq([i \in DOMAIN ch.dnames |-> strip(ch.dnames[i])],
                            LAMBDA d : d # <<>>)
    IN IF dnames = <<>> THEN <<cid>> ELSE dnames

SeqSet(q) == {q[i] : i \in DOMAIN q}

RECURSIVE index_names(_, _, _, _, _)
\* for dn in dnames: name_index[norm_name(dn)].add(cid)
index_names(v, ni, dnames, i, cid) ==
    IF i > Len(dnames) THEN ni
    ELSE index_names(v, AddTo(ni, norm_name_of(v, dnames[i]), cid), dnames, i + 1, cid)

\* the registrations of a channel with (non-empty) id cid and display names dnames;
\* sd_daily_match_epg_m3u.py keeps no suffix index
register_channel(v, cat, cid, dnames) ==
    [chan_map        |-> DictPut(cat.chan_map, cid, SeqSet(dnames)),
     name_index      |-> index_names(v, cat.name_index, dnames, 1, cid),
     id_suffix_index |-> IF v = "match" /\ id_suffix(cid) # None
                         THEN AddTo(cat.id_suffix_index, id_suffix(cid), cid)
                         ELSE cat.id_suffix_index]

\* the body of the loop over the channel elements, for one element
load_channel(v, cat, ch) ==
    IF strip(ch.id) = <<>> THEN cat
    ELSE register_channel(v, cat, strip(ch.id), display_names(ch, strip(ch.id)))

RECURSIVE load_channels(_, _, _, _)
load_channels(v, cat, chs, i) ==
    IF i > Len(chs) THEN cat
    ELSE load_channels(v, load_channel(v, cat, chs[i]), chs, i + 1)

RECURSIVE load_docs(_, _, _, _)
load_docs(v, cat, docs, d) ==
    IF d > Len(docs) THEN cat
    ELSE load_docs(v, load_channels(v, cat, docs[d].channels, 1), docs, d + 1)

\* load_xml_channels(paths); load_sd_xml_channels(path) reads the one document
load_xml_channels(v, docs) == load_docs(v, [chan_map |-> <<>>, name_index |-> EmptyMap, id_suffix_index |-> EmptyMap], docs, 1)

(***************************************************************************)
(* Alias overrides: read_aliases and the lookup of a row's alias.          *)
(* The CSV is [exists, suffix_col, recs]: whether the file exists, whether  *)
(* it has a _suffix column, and its                                        *)
(* records [m3u_name, tvg_id_current, tvg_id_target, suffix] of cell texts.*)
(***************************************************************************)
\* str(r.get(col, "")) of a pandas record: an empty cell is NaN, and str(NaN) is "nan"
pd_cell(cell) == IF cell = <<>> THEN <<"n","a","n">> ELSE cell

\* one record of the CSV as read_aliases of script v stores it
alias_entry(v, csv, r) ==
    IF v = "sd"
    THEN [key    |-> <<lower(strip(r.m3u_name)), lower(strip(r.tvg_id_current))>>,
          target |-> strip(r.tvg_id_target),
          suffix |-> None]
    ELSE [key    |-> <<lower(strip(pd_cell(r.m3u_name))), lower(strip(pd_cell(r.tvg_id_current)))>>,
          target |-> strip(pd_cell(r.tvg_id_target)),
          suffix |-> IF csv.suffix_col
                     THEN Or(lower(strip(pd_cell(r.suffix))), None)
                     ELSE None]

RECURSIVE read_alias_recs(_, _, _, _)
read_alias_recs(v, csv, i, out) ==
    IF i > Len(csv.recs) THEN out
    ELSE LET e == alias_entry(v, csv, csv.recs[i])
         IN read_alias_recs(v, csv, i + 1,
                Put(out, e.key, [target |-> e.target, suffix |-> e.suffix]))

\* os.path.exists(path) is false
NoFile == [exists |-> FALSE, suffix_col |-> FALSE, recs |-> <<>>]

\* read_aliases(path)
read_aliases(v, csv) ==
    IF ~csv.exists THEN EmptyMap ELSE read_alias_recs(v, csv, 1, EmptyMap)

\* the row built for playlist entry ch (the loop after read_aliases)
make_row(v, ch, al) ==
    LET key == <<lower(ch.name), lower(ch.tvg_id)>>
        hit == key \in DOMAIN al
    IN [name         |-> ch.name,
        tvg_name     |-> Or(ch.tvg_name, ch.name),
        tvg_id       |-> ch.tvg_id,
        group        |-> ch.group,
        url          |-> ch.url,
        alias_target |-> IF hit THEN al[key].target ELSE None,
        suffix       |-> IF hit /\ v = "match" THEN al[key].suffix ELSE None]

(***************************************************************************)
(* Identity Resolver: guess_suffix and best_match.                         *)
(* A verdict is [method, matched_id, confidence], the confidence in        *)
(* thousandths.                                                            *)
(***************************************************************************)
Verdict(m, id, c) == [method |-> m, matched_id |-> id, confidence |-> c]

S_uk == <<"u","k">>

S_us == <<"u","s">>

S_ca == <<"c","a">>

S_de == <<"d","e">>

DOT_uk == <<".","u","k">>

DOT_gb == <<".","g","b">>

UkWords == { <<" ","u","k"," ">>, <<" ","g","b"," ">>,
             <<" ","u","n","i","t","e","d"," ","k","i","n","g","d","o","m"," ">>,
             DOT_uk, DOT_gb, <<" ","b","r","i","t","i","s","h"," ">> }

UsWords == { <<" ","u","s"," ">>, <<" ","u","s","a"," ">>,
             <<" ","u","n","i","t","e","d"," ","s","t","a","t","e","s"," ">>, <<".","u","s">> }

CaWords == { <<" ","c","a"," ">>, <<" ","c","a","n","a","d","a"," ">>, <<".","c","a">> }

DeWords == { <<" ","d","e"," ">>, <<" ","g","e","r","m","a","n","y"," ">>,
             <<" ","d","e","u","t","s","c","h","l","a","n","d"," ">>, <<".","d","e">> }

\* guess_suffix(row)
guess_suffix(row) ==
    LET blob == lower(<<" ">> \o row.tvg_id \o <<" ">> \o row.group \o <<" ">>
                      \o Or(row.tvg_name, row.name) \o <<" ">>)
    IN IF \E k \in UkWords : contains(blob, k) THEN S_uk
       ELSE IF \E k \in UsWords : contains(blob, k) THEN S_us
       ELSE IF \E k \in CaWords : contains(blob, k) THEN S_ca
       ELSE IF \E k \in DeWords : contains(blob, k) THEN S_de
       ELSE id_suffix(lower(row.tvg_id))

\* re.sub(r'[^a-z0-9]+', '', s)
compact(s) == SelectSeq(s, LAMBDA c : c \in AlnumLower)

\* tid and nm of best_match
row_tid(row) == strip(row.tvg_id)

row_nm(row) == strip(Or(row.tvg_name, row.name))

\* a guard that takes any alias entry, its target blank or not
alias_applies_any_target(row) == row.alias_target # None

\* (0) manual alias
alias_applies(row) == Truthy(row.alias_target)

\* (1) exact id
id_exact_applies(tid, cm) == tid \in DictKeys(cm)

\* (2) compact id equal: the positions of chan_map whose key compacts to the same
compact_hits(tid, cm) ==
    {i \in DOMAIN cm : compact(lower(cm[i].k)) = compact(lower(tid))}

id_compact_applies(tid, cm) == tid # <<>> /\ compact_hits(tid, cm) # {}

\* tid[:-3] + ".uk" / ".gb"
swap_suffix(tid, to) == SubSeq(tid, 1, Len(tid) - 3) \o to

\* the swap to .uk taken without looking the swapped id up
gb_to_uk_unchecked(tid, cm) == tid # <<>> /\ endswith(tid, DOT_gb)

gb_to_uk_applies(tid, cm) ==
    tid # <<>> /\ endswith(tid, DOT_gb) /\ swap_suffix(tid, DOT_uk) \in DictKeys(cm)

\* a resolver that swaps in one direction only
uk_to_gb_missing(tid, cm) == FALSE

uk_to_gb_applies(tid, cm) ==
    tid # <<>> /\ endswith(tid, DOT_uk) /\ swap_suffix(tid, DOT_gb) \in DictKeys(cm)

\* a lookup that takes any name the index holds, however many ids it maps to
name_indexed_applies(nkey, ni) == nkey \in DOMAIN ni

\* (3) direct name unique
name_unique_applies(nkey, ni) == nkey \in DOMAIN ni /\ Cardinality(ni[nkey]) = 1

FracEq(x, y) == x[1] * y[2] = y[1] * x[2]

FracMax(S) == CHOOSE x \in S : \A y \in S : FracGe(x, y)

\* the best Jaccard score of a channel's display names against name_tok
cid_score(v, name_tok, names) ==
    FracMax({jaccard(name_tok, name_tokens(v, dn)) : dn \in names})

\* the score the loop over the candidates ends with (0.0 without candidates)
best_score(v, name_tok, cm, cands) ==
    FracMax({cid_score(v, name_tok, DictGet(cm, cid)) : cid \in cands} \cup {<<0, 1>>})

SIX_TENTHS == <<3, 5>>

\* (score - 0.60) in thousandths, rounded to the nearest
boost_of(score) ==
    (2 * (5000 * score[1] - 3000 * score[2]) + 5 * score[2]) \div (10 * score[2])

\* round(base + min(0.10, score - 0.60), 3), in thousandths
jaccard_conf(base, score) ==
    base + (IF boost_of(score) > 100 THEN 100 ELSE boost_of(score))

\* suf and cands of (4)
row_suf(row) == Or(row.suffix, guess_suffix(row))

\* candidates taken from the whole catalog whatever the hint
jaccard_cands_all(suf, cm, si) == DictKeys(cm)

jaccard_cands(suf, cm, si) == IF ~Truthy(suf) THEN DictKeys(cm) ELSE Get(si, suf, {})

\* an acceptance that takes only scores above 0.60
name_jaccard_above(name_tok, cm, cands) ==
    ~FracGe(SIX_TENTHS, best_score("match", name_tok, cm, cands))

\* (4) suffix-constrained Jaccard
name_jaccard_applies(name_tok, cm, cands) ==
    FracGe(best_score("match", name_tok, cm, cands), SIX_TENTHS)

\* the verdicts the loop over the set cands can end with; a set is iterated in an
\* order the program does not fix, and the first candidate reaching the best score
\* is kept
name_jaccard_verdicts(suf, name_tok, cm, cands) ==
    {Verdict("name_jaccard", best,
             jaccard_conf(IF Truthy(suf) /\ endswith(best, <<".">> \o suf) THEN 850 ELSE 800,
                          best_score("match", name_tok, cm, cands))) :
        best \in {cid \in cands : FracEq(cid_score("match", name_tok, DictGet(cm, cid)),
                                         best_score("match", name_tok, cm, cands))}}

SlugSuffixes == <<S_uk, S_us, S_ca, S_de>>

\* (5) slug+country guess: the suffixes, in the order tried, whose guess is in chan_map
slug_guess(nkey, i) == compact(nkey) \o <<".">> \o SlugSuffixes[i]

slug_hits(nkey, cm) == {i \in DOMAIN SlugSuffixes : slug_guess(nkey, i) \in DictKeys(cm)}

\* the chain with the unique-name lookup tried before the declared id
match_steps_name_first(row, tid, nkey, suf, name_tok, cm, ni, si) ==
    IF alias_applies(row) THEN {Verdict("alias", row.alias_target, 1000)}
    ELSE IF name_unique_applies(nkey, ni)
         THEN {Verdict("name_unique", CHOOSE c \in ni[nkey] : TRUE, 920)}
    ELSE IF id_exact_applies(tid, cm) THEN {Verdict("id_exact", tid, 1000)}
    ELSE IF id_compact_applies(tid, cm)
         THEN {Verdict("id_compact", cm[SetMin(compact_hits(tid, cm))].k, 970)}
    ELSE IF gb_to_uk_applies(tid, cm)
         THEN {Verdict("id_gb_to_uk", swap_suffix(tid, DOT_uk), 960)}
    ELSE IF uk_to_gb_applies(tid, cm)
         THEN {Verdict("id_uk_to_gb", swap_suffix(tid, DOT_gb), 960)}
    ELSE IF name_jaccard_applies(name_tok, cm, jaccard_cands(suf, cm, si))
         THEN name_jaccard_verdicts(suf, name_tok, cm, jaccard_cands(suf, cm, si))
    ELSE IF slug_hits(nkey, cm) # {}
         THEN {Verdict("slug_guess", slug_guess(nkey, SetMin(slug_hits(nkey, cm))), 720)}
    ELSE {Verdict("unmatched", <<>>, 0)}

\* the chain of best_match, with tid, nkey, suf and name_tok computed
match_steps(row, tid, nkey, suf, name_tok, cm, ni, si) ==
    IF alias_applies(row) THEN {Verdict("alias", row.alias_target, 1000)}
    ELSE IF id_exact_applies(tid, cm) THEN {Verdict("id_exact", tid, 1000)}
    ELSE IF id_compact_applies(tid, cm)
         THEN {Verdict("id_compact", cm[SetMin(compact_hits(tid, cm))].k, 970)}
    ELSE IF gb_to_uk_applies(tid, cm)
         THEN {Verdict("id_gb_to_uk", swap_suffix(tid, DOT_uk), 960)}
    ELSE IF uk_to_gb_applies(tid, cm)
         THEN {Verdict("id_uk_to_gb", swap_suffix(tid, DOT_gb), 960)}
    ELSE IF name_unique_applies(nkey, ni)
         THEN {Verdict("name_unique", CHOOSE c \in ni[nkey] : TRUE, 920)}
    ELSE IF name_jaccard_applies(name_tok, cm, jaccard_cands(suf, cm, si))
         THEN name_jaccard_verdicts(suf, name_tok, cm, jaccard_cands(suf, cm, si))
    ELSE IF slug_hits(nkey, cm) # {}
         THEN {Verdict("slug_guess", slug_guess(nkey, SetMin(slug_hits(nkey, cm))), 720)}
    ELSE {Verdict("unmatched", <<>>, 0)}

\* best_match(row, chan_map, name_index, id_suffix_index) of match_epg_m3u.py:
\* the set of verdicts it can return
best_match(row, cm, ni, si) ==
    match_steps(row, row_tid(row), norm_name(row_nm(row)), row_suf(row),
                tokens(row_nm(row)), cm, ni, si)

\* the simple token overlap of sd_daily_match_epg_m3u.py
sd_jaccard_applies(name_tok, cm) ==
    FracGe(best_score("sd", name_tok, cm, DictKeys(cm)), SIX_TENTHS)

\* chan_map is iterated in insertion order and the first channel reaching the best
\* score is kept
sd_jaccard_best(name_tok, cm) ==
    cm[SetMin({i \in DOMAIN cm : FracEq(cid_score("sd", name_tok, cm[i].v),
                                        best_score("sd", name_tok, cm, DictKeys(cm)))})].k

sd_match_steps(row, tid, nkey, name_tok, cm, ni) ==
    IF alias_applies(row) THEN {Verdict("alias", row.alias_target, 1000)}
    ELSE IF id_exact_applies(tid, cm) THEN {Verdict("id_exact", tid, 1000)}
    ELSE IF id_compact_applies(tid, cm)
         THEN {Verdict("id_compact", cm[SetMin(compact_hits(tid, cm))].k, 970)}
    ELSE IF name_unique_applies(nkey, ni)
         THEN {Verdict("name_unique", CHOOSE c \in ni[nkey] : TRUE, 920)}
    ELSE IF sd_jaccard_applies(name_tok, cm)
         THEN {Verdict("name_jaccard", sd_jaccard_best(name_tok, cm),
                       jaccard_conf(800, best_score("sd", name_tok, cm, DictKeys(cm))))}
    ELSE {Verdict("unmatched", <<>>, 0)}

\* best_match(row, chan_map, name_index) of sd_daily_match_epg_m3u.py
sd_best_match(row, cm, ni) ==
    sd_match_steps(row, row_tid(row), sd_norm_name(row_nm(row)),
                   name_tokens("sd", row_nm(row)), cm, ni)

(***************************************************************************)
(* Pruned Output Assembler: the playlist rewrite and the EPG filter.       *)
(***************************************************************************)
TVG_ID_EQ == <<"t","v","g","-","i","d","=",QUOTE>>

RECURSIVE sub_tvg_id_from(_, _, _)
\* re.sub(r'tvg-id="(.*?)"', f'tvg-id="{new_id}"', ext), from position i on
sub_tvg_id_from(ext, i, new_id) ==
    IF i > Len(ext) THEN <<>>
    ELSE LET closers == {q \in (i + Len(TVG_ID_EQ))..Len(ext) : ext[q] = QUOTE}
         IN IF MatchAt(ext, i, TVG_ID_EQ) /\ closers # {}
            THEN TVG_ID_EQ \o new_id \o <<QUOTE>>
                     \o sub_tvg_id_from(ext, SetMin(closers) + 1, new_id)
            ELSE <<ext[i]>> \o sub_tvg_id_from(ext, i + 1, new_id)

\* new_id = r["matched_id"] if r["confidence"] >= THRESH and r["matched_id"] else ch["tvg_id"]
applied_id(th, r, ch) ==
    IF r.confidence >= th /\ Truthy(r.matched_id) THEN r.matched_id ELSE ch.tvg_id

\* the metadata line written for an entry
rewrite_extinf(ext, new_id) ==
    IF ~Truthy(new_id) THEN ext
    ELSE IF contains(ext, TVG_ID_EQ) THEN sub_tvg_id_from(ext, 1, new_id)
    ELSE replace(ext, <<QUOTE, ",">>, <<QUOTE, " ">> \o TVG_ID_EQ \o new_id \o <<QUOTE, ",">>)

EXTM3U == <<"#","E","X","T","M","3","U">>

RECURSIVE rewrite_from(_, _, _, _)
\* the loop over zip(m3u, rows): ext and url of every entry
rewrite_from(th, entries, rs, i) ==
    IF i > Len(entries) \/ i > Len(rs) THEN <<>>
    ELSE <<rewrite_extinf(entries[i].extinf, applied_id(th, rs[i], entries[i])), entries[i].url>>
             \o rewrite_from(th, entries, rs, i + 1)

rewrite_m3u(th, entries, rs) == <<EXTM3U>> \o rewrite_from(th, entries, rs, 1)

\* sd: the ids matched_ids.add(new_id) collects
applied_ids(th, entries, rs) ==
    {applied_id(th, rs[i], entries[i]) : i \in DOMAIN entries \cap DOMAIN rs} \ {<<>>}

\* keep_ids of match_epg_m3u.py
keep_ids(th, rs) == {rs[i].matched_id : i \in {j \in DOMAIN rs : rs[j].confidence >= th}}

\* keep of sd_daily_match_epg_m3u.py
sd_keep(mids, rs) ==
    IF mids # {} THEN mids ELSE {rs[i].matched_id : i \in DOMAIN rs} \ {<<>>}

ChannelEl(d, i, ch) == [kind |-> "channel", doc |-> d, pos |-> i, id |-> ch.id]

ProgrammeEl(d, i, pg) == [kind |-> "programme", doc |-> d, pos |-> i, id |-> pg.channel]

RECURSIVE merge_channels(_, _, _, _, _)
\* the loop over one document's channel elements: <<elements appended, seen>>
merge_channels(keep, d, chs, i, seen) ==
    IF i > Len(chs) THEN <<<<>>, seen>>
    ELSE IF chs[i].id \in keep /\ chs[i].id \notin seen
         THEN LET rest == merge_channels(keep, d, chs, i + 1, seen \cup {chs[i].id})
              IN <<<<ChannelEl(d, i, chs[i])>> \o rest[1], rest[2]>>
         ELSE merge_channels(keep, d, chs, i + 1, seen)

\* the loop over one document's programme elements
merge_programmes(keep, d, pgs) ==
    SelectSeq([i \in DOMAIN pgs |-> ProgrammeEl(d, i, pgs[i])], LAMBDA e : e.id \in keep)

RECURSIVE merge_docs(_, _, _, _)
\* the merged EPG of match_epg_m3u.py
merge_docs(keep, docs, d, seen) ==
    IF d > Len(docs) THEN <<>>
    ELSE LET chs == merge_channels(keep, d, docs[d].channels, 1, seen)
         IN chs[1] \o merge_programmes(keep, d, docs[d].programmes)
                \o merge_docs(keep, docs, d + 1, chs[2])

\* the filtered EPG of sd_daily_match_epg_m3u.py: one document, no seen set
sd_filter(keep, doc) ==
    SelectSeq([i \in DOMAIN doc.channels |-> ChannelEl(1, i, doc.channels[i])],
              LAMBDA e : e.id \in keep)
        \o merge_programmes(keep, 1, doc.programmes)

(***************************************************************************)
(* The inputs of a run: playlists, EPG documents and alias tables.         *)
(***************************************************************************)
MaxRows == 1

MaxDocs == 2

MaxChannels == 2

MaxProgs == 1

MaxNormLen == 4

SeqsUpTo(S, n) == UNION {[1..k -> S] : k \in 0..n}

ID_b_uk == <<"b",".","u","k">>

ID_b_gb == <<"b",".","g","b">>

ID_c_us == <<"c",".","u","s">>

ID_q_uk == <<"q",".","u","k">>

ID_x_uk == <<"x",".","u","k">>

ID_b_uk_ws == <<" ">> \o ID_b_uk \o <<" ">>

N_B == <<"B">>

N_B_HD == <<"B"," ","H","D">>

N_C_D == <<"C"," ","D">>

N_C_D_E == <<"C"," ","D"," ","E">>

N_C_D_E_F_G == <<"C"," ","D"," ","E"," ","F"," ","G">>

ID_c_fr == <<"c",".","f","r">>

ChannelPool ==
    { [id |-> ID_b_uk,    dnames |-> <<N_B>>],
      [id |-> ID_b_uk,    dnames |-> <<N_C_D>>],
      [id |-> ID_b_uk_ws, dnames |-> <<N_B_HD>>],
      [id |-> ID_b_gb,    dnames |-> <<>>],
      [id |-> ID_c_us,    dnames |-> <<N_B, N_C_D_E_F_G>>],
      [id |-> <<>>,       dnames |-> <<N_B>>] }

ProgPool == { [channel |-> ID_b_uk], [channel |-> ID_c_us] }

DocPool ==
    {[channels |-> c, programmes |-> p] :
        c \in SeqsUpTo(ChannelPool, MaxChannels), p \in SeqsUpTo(ProgPool, MaxProgs)}

RECURSIVE CountChannels(_, _)
CountChannels(docs, d) ==
    IF d > Len(docs) THEN 0 ELSE Len(docs[d].channels) + CountChannels(docs, d + 1)

\* sd_daily_match_epg_m3u.py reads the one document epg_sd.xml.gz
EpgInputsSd == {<<doc>> : doc \in DocPool}

\* match_epg_m3u.py reads one document per country code, at least one
EpgInputsMatch ==
    {ds \in SeqsUpTo(DocPool, MaxDocs) :
        /\ Len(ds) >= 1
        /\ CountChannels(ds, 1) <= MaxChannels
        /\ Len(ds) > 1 => \A d \in DOMAIN ds : ds[d].channels # <<>>}

Attr(key, val) == <<" ">> \o key \o <<"=", QUOTE>> \o val \o <<QUOTE>>

ExtInfLine(attrs, name) == EXTINF \o <<"-","1">> \o attrs \o <<",">> \o name

\* a line in the form prune_m3u.py writes, with hyphenated attribute names
PrunedLine ==
    ExtInfLine(Attr(K_tvg_id_h, ID_c_us) \o Attr(K_tvg_name_h, N_C_D)
                   \o Attr(K_group_title_h, <<"G">>), N_C_D)

KODIPROP == <<"#","K","O","D","I","P","R","O","P",":","k","=","v">>

LinePool ==
    { ExtInfLine(Attr(K_tvg_id_u, ID_b_gb), N_B),
      ExtInfLine(Attr(K_tvg_id_h, ID_b_uk) \o Attr(K_tvg_id_u, ID_b_uk), N_B_HD),
      ExtInfLine(<<>>, N_B),
      ExtInfLine(Attr(K_tvg_id_h, ID_x_uk) \o Attr(K_tvg_id_u, ID_q_uk), <<"Q">>),
      ExtInfLine(Attr(K_tvg_id_u, <<"B",".","U","K">>) \o Attr(K_tvg_name_u, N_C_D_E), N_B),
      ExtInfLine(Attr(K_tvg_id_h, ID_b_uk), N_C_D_E),
      ExtInfLine(<<>>, <<>>),
      ExtInfLine(<<>>, N_B_HD),
      ExtInfLine(Attr(K_tvg_id_u, ID_c_fr), N_C_D_E),
      PrunedLine }

RECURSIVE EntryLines(_, _)
\* the lines of the entries: metadata line, the property line of a pruned entry, address
EntryLines(q, i) ==
    IF i > Len(q) THEN <<>>
    ELSE <<q[i]>> \o (IF q[i] = PrunedLine THEN <<KODIPROP>> ELSE <<>>)
             \o << <<"h",":","/","/","s">> >> \o EntryLines(q, i + 1)

M3uFiles == {<<EXTM3U>> \o EntryLines(q, 1) : q \in SeqsUpTo(LinePool, MaxRows) \ {<<>>}}

AliasRec(name, cur, target, suf) ==
    [m3u_name |-> name, tvg_id_current |-> cur, tvg_id_target |-> target, suffix |-> suf]

AliasFiles ==
    { NoFile,
      [exists |-> TRUE, suffix_col |-> FALSE, recs |-> <<AliasRec(N_B, ID_b_gb, ID_q_uk, <<>>)>>],
      [exists |-> TRUE, suffix_col |-> TRUE, recs |-> <<AliasRec(N_B, ID_b_gb, <<>>, S_uk),
                  AliasRec(N_C_D_E, ID_c_fr, <<" ">>, S_us)>>],
      [exists |-> TRUE, suffix_col |-> FALSE, recs |-> <<AliasRec(N_B, <<>>, ID_b_gb, <<>>)>>] }

MATCH_THRESH == 900

SD_THRESH_DEFAULT == 600

NormInputs == SeqsUpTo({"h", "d", "_", " ", "x", "U+00F8"}, MaxNormLen)

(***************************************************************************)
(* Favourites writer: prune_m3u.py.  A row of tv_favourites.csv is a        *)
(* function from the header names to the cell texts, as _read_csv returns  *)
(* it (every cell trimmed).  A master playlist is [exists, base, label,    *)
(* lines]: whether the file can be opened, the basename of its path, the   *)
(* label main gives it, and its lines.  None is <<>> and an entry e is     *)
(* <<e>> where the code has Optional[MasterEntry].  The country map and    *)
(* the source report, written after the playlist, are not modelled.        *)
(***************************************************************************)
\* str.upper()
upper(s) ==
    [i \in 1..Len(s) |->
        IF s[i] \in LowerSet THEN UpperSeq[CHOOSE k \in DOMAIN LowerSeq : LowerSeq[k] = s[i]]
        ELSE s[i]]

RECURSIVE splitlines(_)
\* str.splitlines()
splitlines(s) ==
    IF s = <<>> THEN <<>>
    ELSE IF \A i \in DOMAIN s : s[i] # "\n" THEN <<s>>
    ELSE <<SubSeq(s, 1, SetMin({i \in DOMAIN s : s[i] = "\n"}) - 1)>>
             \o splitlines(SubSeq(s, SetMin({i \in DOMAIN s : s[i] = "\n"}) + 1, Len(s)))

KODIPROP_PREFIX == <<"#","K","O","D","I","P","R","O","P",":">>

\* the stripped, non-empty lines of a cell
stripped_lines(value) ==
    SelectSeq([i \in DOMAIN splitlines(value) |-> strip(splitlines(value)[i])],
              LAMBDA l : l # <<>>)

\* _split_url_and_props(value): the last line that is no property line, or the whole
\* value when there is none; and the property lines
split_url_and_props(value) ==
    [url   |-> IF \E i \in DOMAIN stripped_lines(value) :
                      ~startswith(stripped_lines(value)[i], KODIPROP_PREFIX)
               THEN stripped_lines(value)[SetMax({i \in DOMAIN stripped_lines(value) :
                        ~startswith(stripped_lines(value)[i], KODIPROP_PREFIX)})]
               ELSE strip(value),
     props |-> SelectSeq(stripped_lines(value), LAMBDA l : startswith(l, KODIPROP_PREFIX))]

RECURSIVE merge_from(_, _, _)
merge_from(group, i, merged) ==
    IF i > Len(group) THEN merged
    ELSE IF ~startswith(strip(group[i]), KODIPROP_PREFIX) \/ strip(group[i]) \in SeqSet(merged)
    THEN merge_from(group, i + 1, merged)
    ELSE merge_from(group, i + 1, Append(merged, strip(group[i])))

\* _merge_props(a, b)
merge_props(a, b) == merge_from(a \o b, 1, <<>>)

RECURSIVE attr_lookup_from(_, _, _)
attr_lookup_from(attrs, keys, i) ==
    IF i > Len(keys) THEN <<>>
    ELSE IF lower(keys[i]) \in DOMAIN attrs /\ attrs[lower(keys[i])] # <<>>
    THEN attrs[lower(keys[i])]
    ELSE attr_lookup_from(attrs, keys, i + 1)

\* _attr_lookup(attrs, *keys)
attr_lookup(attrs, keys) == attr_lookup_from(attrs, keys, 1)

FREE_TV_MASTER == <<"f","r","e","e","_","t","v","_","m","a","s","t","e","r">>

IPTV_MASTER == <<"i","p","t","v","_","m","a","s","t","e","r">>

FREE_TV == <<"f","r","e","e","-","t","v">>

IPTV_ORG == <<"i","p","t","v","-","o","r","g">>

\* the kind one token of _classify_source gives, "none" when it gives none
classify_token(token) ==
    IF contains(token, FREE_TV_MASTER) \/ token = FREE_TV THEN "free_tv"
    ELSE IF contains(token, IPTV_MASTER) \/ contains(token, IPTV_ORG) THEN "iptv_org"
    ELSE "none"

\* _classify_source(raw, origin_path); origin is the basename of origin_path
classify_source(raw, origin) ==
    IF raw # <<>> /\ classify_token(lower(raw)) # "none" THEN classify_token(lower(raw))
    ELSE IF origin # <<>> /\ classify_token(lower(origin)) # "none"
    THEN classify_token(lower(origin))
    ELSE "unknown"

RECURSIVE get_from(_, _, _)
get_from(r, cands, i) ==
    IF i > Len(cands) THEN <<>>
    ELSE IF cands[i] \in DOMAIN r /\ strip(r[cands[i]]) # <<>> THEN strip(r[cands[i]])
    ELSE get_from(r, cands, i + 1)

\* _get(r, hdr, *cands); hdr maps the lowercased name of every column of r to its name
get(r, cands) == get_from(r, cands, 1)

\* a flag that counts every non-empty cell as set
is_fav_nonempty(r) == get(r, <<"Favourite", "Favorite", "Include">>) # <<>>

\* _is_fav(r, hdr)
is_fav(r) ==
    lower(get(r, <<"Favourite", "Favorite", "Include">>))
        \in {<<"1">>, <<"t","r","u","e">>, <<"y","e","s">>, <<"y">>}

\* _preferred_source_kinds(row, hdr), as a set
preferred_source_kinds(r) ==
    IF lower(strip(get(r, <<"Source", "m3u_source">>)))
           \in {FREE_TV, <<"f","r","e","e","_","t","v">>, <<"f","r","e","e","t","v">>}
    THEN {"free_tv"}
    ELSE IF lower(strip(get(r, <<"Source", "m3u_source">>)))
           \in {IPTV_ORG, <<"i","p","t","v","_","o","r","g">>, <<"i","p","t","v","o","r","g">>}
    THEN {"iptv_org"}
    ELSE {}

\* ends k of a match of ([\w\-]+)="(.*?)" whose key ends at k, not before position i
MasterKeyEnds(s, i) ==
    {k \in i..(Len(s) - 3) :
        /\ IsWord(s[k]) \/ s[k] = "-"
        /\ s[k + 1] = "="
        /\ s[k + 2] = QUOTE
        /\ \E q \in (k + 3)..Len(s) : s[q] = QUOTE}

RECURSIVE findall_master(_, _)
\* re.findall(r'([\w\-]+)="(.*?)"', s) from position i on
findall_master(s, i) ==
    LET ends == MasterKeyEnds(s, i)
    IN IF ends = {} THEN <<>>
       ELSE LET k == SetMin(ends)
                p == SetMin({j \in i..k : \A m \in j..k : IsWord(s[m]) \/ s[m] = "-"})
                q == SetMin({j \in (k + 3)..Len(s) : s[j] = QUOTE})
            IN <<[key |-> SubSeq(s, p, k), val |-> SubSeq(s, k + 3, q - 1)]>>
                   \o findall_master(s, q + 1)

\* attrs.setdefault(key, val)
setdefault(attrs, key, val) == IF key \in DOMAIN attrs THEN attrs ELSE Put(attrs, key, val)

RECURSIVE master_attrs_from(_, _, _)
\* for k, v in raw_attrs.items(): a key is visited where it first occurs, with the
\* value of its last occurrence
master_attrs_from(pairs, i, attrs) ==
    IF i > Len(pairs) THEN attrs
    ELSE IF \E j \in 1..(i - 1) : pairs[j].key = pairs[i].key
    THEN master_attrs_from(pairs, i + 1, attrs)
    ELSE master_attrs_from(pairs, i + 1,
             setdefault(
                 setdefault(Put(attrs, lower(pairs[i].key), dict_of(pairs)[pairs[i].key]),
                            replace(lower(pairs[i].key), <<"_">>, <<"-">>),
                            dict_of(pairs)[pairs[i].key]),
                 replace(lower(pairs[i].key), <<"-">>, <<"_">>),
                 dict_of(pairs)[pairs[i].key]))

\* the attrs of a master entry
master_attrs(ext) == master_attrs_from(findall_master(ext, 1), 1, EmptyMap)

\* MasterEntry(...) for the metadata line ext, its property lines and its address line
MasterEntry(src, priority, ext, props, line, line_no) ==
    [name        |-> name_of(ext),
     tvg_id      |-> attr_lookup(master_attrs(ext), <<K_tvg_id_h, K_tvg_id_u, K_tvgid>>),
     url         |-> strip(line),
     props       |-> props,
     priority    |-> priority,
     source      |-> IF src.label # <<>> THEN src.label
                     ELSE IF src.base # <<>> THEN src.base
                     ELSE <<"u","n","k","n","o","w","n">>,
     attrs       |-> master_attrs(ext),
     origin_path |-> src.base,
     line_no     |-> line_no]

\* _norm_key(val)
norm_key(val) == lower(strip(val))

\* the three lookups with entry stored under its keys, replacing what they held
add_entry_last(lookup, entry) ==
    [by_url  |-> IF strip(entry.url) # <<>>
                 THEN Put(lookup.by_url, strip(entry.url), entry) ELSE lookup.by_url,
     by_tvg  |-> IF norm_key(entry.tvg_id) # <<>>
                 THEN Put(lookup.by_tvg, norm_key(entry.tvg_id), entry) ELSE lookup.by_tvg,
     by_name |-> IF norm_key(entry.name) # <<>>
                 THEN Put(lookup.by_name, norm_key(entry.name), entry) ELSE lookup.by_name]

\* the three lookups with entry added under the keys that are new
add_entry(lookup, entry) ==
    [by_url  |-> IF strip(entry.url) # <<>>
                 THEN setdefault(lookup.by_url, strip(entry.url), entry) ELSE lookup.by_url,
     by_tvg  |-> IF norm_key(entry.tvg_id) # <<>>
                 THEN setdefault(lookup.by_tvg, norm_key(entry.tvg_id), entry) ELSE lookup.by_tvg,
     by_name |-> IF norm_key(entry.name) # <<>>
                 THEN setdefault(lookup.by_name, norm_key(entry.name), entry) ELSE lookup.by_name]

RECURSIVE parse_master_lines(_, _, _, _, _, _)
\* the loop over the lines of one master playlist, from line i, with current_ext
\* (<<>> for None, <<line>> otherwise) and props
parse_master_lines(src, priority, i, current_ext, props, lookup) ==
    IF i > Len(src.lines) THEN lookup
    ELSE IF startswith(src.lines[i], EXTINF)
    THEN parse_master_lines(src, priority, i + 1, <<src.lines[i]>>, <<>>, lookup)
    ELSE IF current_ext # <<>> /\ startswith(src.lines[i], <<"#">>)
    THEN parse_master_lines(src, priority, i + 1, current_ext,
             IF startswith(src.lines[i], KODIPROP_PREFIX)
             THEN Append(props, strip(src.lines[i])) ELSE props,
             lookup)
    ELSE IF current_ext # <<>> /\ src.lines[i] # <<>>
    THEN parse_master_lines(src, priority, i + 1, <<>>, <<>>,
             add_entry(lookup, MasterEntry(src, priority, current_ext[1], props, src.lines[i], i)))
    ELSE parse_master_lines(src, priority, i + 1, current_ext, props, lookup)

RECURSIVE parse_master_from(_, _, _)
parse_master_from(sources, n, lookup) ==
    IF n > Len(sources) THEN lookup
    ELSE IF ~sources[n].exists THEN parse_master_from(sources, n + 1, lookup)
    ELSE parse_master_from(sources, n + 1,
             parse_master_lines(sources[n], n - 1, 1, <<>>, <<>>, lookup))

\* _parse_master_playlist(sources)
parse_master_playlist(sources) ==
    parse_master_from(sources, 1, [by_url |-> EmptyMap, by_tvg |-> EmptyMap,
                                   by_name |-> EmptyMap])

\* _accept(entry) of _find_master_entry
accept(entry, preferred_kinds) ==
    preferred_kinds = {} \/ classify_source(entry.source, entry.origin_path) \in preferred_kinds

\* tvg_key.split("@", 1)[0]
before_at(s) ==
    IF \A i \in DOMAIN s : s[i] # "@" THEN s
    ELSE SubSeq(s, 1, SetMin({i \in DOMAIN s : s[i] = "@"}) - 1)

\* the keys looked up with the display name before the declared id
find_steps_name_first(lookup, url_key, tvg_key, name_key, pk) ==
    IF url_key # <<>> /\ url_key \in DOMAIN lookup.by_url /\ accept(lookup.by_url[url_key], pk)
    THEN <<lookup.by_url[url_key]>>
    ELSE IF name_key # <<>> /\ name_key \in DOMAIN lookup.by_name
            /\ accept(lookup.by_name[name_key], pk)
    THEN <<lookup.by_name[name_key]>>
    ELSE IF tvg_key # <<>> /\ tvg_key \in DOMAIN lookup.by_tvg /\ accept(lookup.by_tvg[tvg_key], pk)
    THEN <<lookup.by_tvg[tvg_key]>>
    ELSE IF tvg_key # <<>> /\ before_at(tvg_key) # tvg_key
            /\ before_at(tvg_key) \in DOMAIN lookup.by_tvg
            /\ accept(lookup.by_tvg[before_at(tvg_key)], pk)
    THEN <<lookup.by_tvg[before_at(tvg_key)]>>
    ELSE <<>>

\* the lookups of _find_master_entry in their order
find_steps(lookup, url_key, tvg_key, name_key, pk) ==
    IF url_key # <<>> /\ url_key \in DOMAIN lookup.by_url /\ accept(lookup.by_url[url_key], pk)
    THEN <<lookup.by_url[url_key]>>
    ELSE IF tvg_key # <<>> /\ tvg_key \in DOMAIN lookup.by_tvg /\ accept(lookup.by_tvg[tvg_key], pk)
    THEN <<lookup.by_tvg[tvg_key]>>
    ELSE IF tvg_key # <<>> /\ before_at(tvg_key) # tvg_key
            /\ before_at(tvg_key) \in DOMAIN lookup.by_tvg
            /\ accept(lookup.by_tvg[before_at(tvg_key)], pk)
    THEN <<lookup.by_tvg[before_at(tvg_key)]>>
    ELSE IF tvg_key # <<>> /\ (\E i \in DOMAIN tvg_key : tvg_key[i] = ".")
            /\ lower(tvg_key) \in DOMAIN lookup.by_tvg
            /\ accept(lookup.by_tvg[lower(tvg_key)], pk)
    THEN <<lookup.by_tvg[lower(tvg_key)]>>
    ELSE IF name_key # <<>> /\ name_key \in DOMAIN lookup.by_name
            /\ accept(lookup.by_name[name_key], pk)
    THEN <<lookup.by_name[name_key]>>
    ELSE <<>>

\* _find_master_entry(lookup, name, tvg_id, url, preferred_kinds)
find_master_entry(lookup, name, tvg_id, url, preferred_kinds) ==
    find_steps(lookup, strip(url), norm_key(tvg_id), norm_key(name), preferred_kinds)

RECURSIVE sub_attr_from(_, _, _, _)
\* pat.sub(rf'\1{val}\2', extinf) for pat = (key=")[^"]*("), from position i on
sub_attr_from(ext, i, key, val) ==
    IF i > Len(ext) THEN <<>>
    ELSE IF MatchAt(ext, i, key \o <<"=", QUOTE>>)
            /\ \E q \in (i + Len(key) + 2)..Len(ext) : ext[q] = QUOTE
    THEN key \o <<"=", QUOTE>> \o val \o <<QUOTE>>
             \o sub_attr_from(ext,
                    SetMin({q \in (i + Len(key) + 2)..Len(ext) : ext[q] = QUOTE}) + 1, key, val)
    ELSE <<ext[i]>> \o sub_attr_from(ext, i + 1, key, val)

\* set_attr(extinf, key, val)
set_attr(extinf, key, val) ==
    IF val = <<>> THEN extinf
    ELSE IF \E i \in DOMAIN extinf :
                /\ MatchAt(extinf, i, key \o <<"=", QUOTE>>)
                /\ \E q \in (i + Len(key) + 2)..Len(extinf) : extinf[q] = QUOTE
    THEN sub_attr_from(extinf, 1, key, val)
    ELSE IF \A i \in DOMAIN extinf : extinf[i] # ","
    THEN extinf \o <<" ">> \o key \o <<"=", QUOTE>> \o val \o <<QUOTE>>
    ELSE SubSeq(extinf, 1, SetMin({i \in DOMAIN extinf : extinf[i] = ","}) - 1)
             \o <<" ">> \o key \o <<"=", QUOTE>> \o val \o <<QUOTE>>
             \o SubSeq(extinf, SetMin({i \in DOMAIN extinf : extinf[i] = ","}), Len(extinf))

\* cc: cc_raw.strip(), in upper case when it has at most three characters
cc_of(cc_raw) == IF Len(strip(cc_raw)) <= 3 THEN upper(strip(cc_raw)) ELSE strip(cc_raw)

\* country_labels.get(cc) or (cc if cc else grp or "")
country_label(cc, grp) ==
    IF cc \in {<<"U","K">>, <<"G","B">>}
    THEN <<"U","n","i","t","e","d"," ","K","i","n","g","d","o","m">>
    ELSE IF cc = <<"D","E">> THEN <<"G","e","r","m","a","n","y">>
    ELSE IF cc = <<"C","A">> THEN <<"C","a","n","a","d","a">>
    ELSE IF cc = <<"U","S">> THEN <<"U","S","A">>
    ELSE IF cc # <<>> THEN cc
    ELSE grp

\* the metadata line of an entry
ext_line(name, tvg, cc, logo, tvg_name_attr, grp) ==
    set_attr(
        set_attr(
            set_attr(
                set_attr(
                    set_attr(EXTINF \o <<"-","1">>, K_tvg_id_h, tvg),
                    <<"t","v","g","-","c","o","u","n","t","r","y">>, cc),
                <<"t","v","g","-","l","o","g","o">>, logo),
            K_tvg_name_h, tvg_name_attr),
        K_group_title_h, country_label(cc, grp))
      \o <<",">> \o name

\* the lines written for row r when the declared id of the master entry is
\* preferred to the one of the row
entry_lines_master_first(r, stream_url, inline_props, me) ==
    <<ext_line(IF get(r, <<"ChannelName", "Name", "Channel">>) = <<>> /\ me # <<>>
               THEN me[1].name ELSE get(r, <<"ChannelName", "Name", "Channel">>),
               Or(attr_lookup(IF me = <<>> THEN EmptyMap ELSE me[1].attrs,
                              <<K_tvg_id_h, K_tvg_id_u, K_tvgid>>),
                  get(r, <<"TvgId", "tvg-id">>)),
               cc_of(Or(get(r, <<"Country", "tvg-country">>),
                        attr_lookup(IF me = <<>> THEN EmptyMap ELSE me[1].attrs,
                                    << <<"t","v","g","-","c","o","u","n","t","r","y">>,
                                       <<"c","o","u","n","t","r","y">> >>))),
               Or(get(r, <<"Logo", "tvg-logo", "TvgLogo">>),
                  attr_lookup(IF me = <<>> THEN EmptyMap ELSE me[1].attrs,
                              << <<"t","v","g","-","l","o","g","o">>, <<"l","o","g","o">> >>)),
               attr_lookup(IF me = <<>> THEN EmptyMap ELSE me[1].attrs,
                           <<K_tvg_name_h, K_tvg_name_u>>),
               Or(get(r, <<"GroupTitle", "Group", "Category">>),
                  attr_lookup(IF me = <<>> THEN EmptyMap ELSE me[1].attrs,
                              <<K_group_title_h, <<"g","r","o","u","p">>,
                                <<"c","a","t","e","g","o","r","y">> >>)))>>
      \o merge_props(inline_props, IF me = <<>> THEN <<>> ELSE me[1].props)
      \o <<strip(IF me = <<>> THEN stream_url ELSE me[1].url)>>

\* the lines written for row r, given its address, its property lines and the
\* master entry found for it (<<>> when none)
entry_lines(r, stream_url, inline_props, me) ==
    <<ext_line(IF get(r, <<"ChannelName", "Name", "Channel">>) = <<>> /\ me # <<>>
               THEN me[1].name ELSE get(r, <<"ChannelName", "Name", "Channel">>),
               Or(get(r, <<"TvgId", "tvg-id">>),
                  attr_lookup(IF me = <<>> THEN EmptyMap ELSE me[1].attrs,
                              <<K_tvg_id_h, K_tvg_id_u, K_tvgid>>)),
               cc_of(Or(get(r, <<"Country", "tvg-country">>),
                        attr_lookup(IF me = <<>> THEN EmptyMap ELSE me[1].attrs,
                                    << <<"t","v","g","-","c","o","u","n","t","r","y">>,
                                       <<"c","o","u","n","t","r","y">> >>))),
               Or(get(r, <<"Logo", "tvg-logo", "TvgLogo">>),
                  attr_lookup(IF me = <<>> THEN EmptyMap ELSE me[1].attrs,
                              << <<"t","v","g","-","l","o","g","o">>, <<"l","o","g","o">> >>)),
               attr_lookup(IF me = <<>> THEN EmptyMap ELSE me[1].attrs,
                           <<K_tvg_name_h, K_tvg_name_u>>),
               Or(get(r, <<"GroupTitle", "Group", "Category">>),
                  attr_lookup(IF me = <<>> THEN EmptyMap ELSE me[1].attrs,
                              <<K_group_title_h, <<"g","r","o","u","p">>,
                                <<"c","a","t","e","g","o","r","y">> >>)))>>
      \o merge_props(inline_props, IF me = <<>> THEN <<>> ELSE me[1].props)
      \o <<strip(IF me = <<>> THEN stream_url ELSE me[1].url)>>

\* the lines written for a favourite row with the address stream_url
write_row(r, stream_url, inline_props, lookup) ==
    entry_lines(r, stream_url, inline_props,
                find_master_entry(lookup, get(r, <<"ChannelName", "Name", "Channel">>),
                                  get(r, <<"TvgId", "tvg-id">>), stream_url,
                                  preferred_source_kinds(r)))

RECURSIVE write_from(_, _, _, _)
\* the loop of write_pruned_m3u_from_favs over favs, from row i
write_from(fs, i, lookup, acc) ==
    IF i > Len(fs) THEN acc
    ELSE IF ~is_fav(fs[i])
    THEN write_from(fs, i + 1, lookup, [acc EXCEPT !.sk_notfav = @ + 1])
    ELSE IF split_url_and_props(get(fs[i], <<"Url", "URL", "StreamUrl">>)).url = <<>>
    THEN write_from(fs, i + 1, lookup, [acc EXCEPT !.sk_nourl = @ + 1])
    ELSE write_from(fs, i + 1, lookup,
             [acc EXCEPT !.written = @ + 1,
                         !.fo = @ \o write_row(fs[i],
                                    split_url_and_props(get(fs[i], <<"Url", "URL", "StreamUrl">>)).url,
                                    split_url_and_props(get(fs[i], <<"Url", "URL", "StreamUrl">>)).props,
                                    lookup)])

\* write_pruned_m3u_from_favs(favs, hdr, out_path, master_lookup=...): the lines of the
\* file and written, sk_notfav, sk_nourl
write_pruned_m3u_from_favs(fs, lookup) ==
    write_from(fs, 1, lookup, [fo |-> <<EXTM3U>>, written |-> 0, sk_notfav |-> 0, sk_nourl |-> 0])

(***************************************************************************)
(* Favourites table: _reset_new_flags, _collect_master_entries and         *)
(* _sync_favourites_with_master.  A row is a function from column names to *)
(* cells; a column the row does not hold reads as the empty cell, which is *)
(* what csv.DictWriter writes for it.                                      *)
(***************************************************************************)
FREE_TV_LABEL == <<"F","r","e","e","-","T","V">>

IPTV_ORG_CATEGORY == <<"I","P","T","V","-","o","r","g">>

UNKNOWN_LABEL == <<"U","n","k","n","o","w","n">>

GROUP_MARK == <<" ","(","g","r","o","u","p",")">>

K_GROUP == <<"g","r","o","u","p">>

K_CATEGORY == <<"c","a","t","e","g","o","r","y">>

K_TVG_COUNTRY == <<"t","v","g","-","c","o","u","n","t","r","y">>

K_TVG_LOGO == <<"t","v","g","-","l","o","g","o">>

K_COUNTRY == <<"c","o","u","n","t","r","y">>

\* today, datetime.utcnow().strftime("%Y%m%d")
TODAY == <<"2","0","2","4","0","1","0","1">>

\* row.get(col) or ""
Cell(row, col) == IF col \in DOMAIN row THEN row[col] ELSE <<>>

\* _set_field(row, hdr, headers, column, value)
set_field(row, column, value) == Put(row, column, value)

\* _read_csv(path): every cell stripped
read_csv(table) ==
    [i \in DOMAIN table |-> [col \in DOMAIN table[i] |-> strip(table[i][col])]]

\* the New flag of _reset_new_flags
reset_new(row) ==
    IF strip(Cell(row, "New")) # <<"0">> THEN set_field(row, "New", <<"0">>) ELSE row

\* the source columns of _reset_new_flags
reset_source(row) ==
    IF strip(Cell(row, "Source")) # <<>> /\ strip(Cell(row, "m3u_source")) = <<>>
    THEN set_field(row, "m3u_source", strip(Cell(row, "Source")))
    ELSE IF strip(Cell(row, "m3u_source")) # <<>> /\ strip(Cell(row, "Source")) = <<>>
    THEN set_field(row, "Source", strip(Cell(row, "m3u_source")))
    ELSE IF strip(Cell(row, "Source")) # <<>> /\ strip(Cell(row, "m3u_source")) # <<>>
            /\ strip(Cell(row, "Source")) # strip(Cell(row, "m3u_source"))
    THEN set_field(row, "m3u_source", strip(Cell(row, "Source")))
    ELSE row

\* the rows after _reset_new_flags
reset_new_flags(fs) == [i \in DOMAIN fs |-> reset_source(reset_new(fs[i]))]

\* _channel_key(name, tvg, url)
channel_key(name, tvg, url) ==
    IF strip(name) # <<>> THEN strip(name)
    ELSE IF strip(tvg) # <<>> THEN strip(tvg)
    ELSE strip(url)

\* _channel_key(entry.name, entry.tvg_id, entry.url).strip().lower()
entry_key(entry) == lower(strip(channel_key(entry.name, entry.tvg_id, entry.url)))

\* entry a was read before entry b; a dict of the lookup iterates in this order
read_before(a, b) ==
    a.priority < b.priority \/ (a.priority = b.priority /\ a.line_no < b.line_no)

RECURSIVE values_in_order(_)
\* bucket.values() for the set of entries a bucket holds
values_in_order(es) ==
    IF es = {} THEN <<>>
    ELSE <<CHOOSE e \in es : \A o \in es \ {e} : read_before(e, o)>>
             \o values_in_order(es \ {CHOOSE e \in es : \A o \in es \ {e} : read_before(e, o)})

\* bucket.values()
bucket_values(bucket) == values_in_order({bucket[k] : k \in DOMAIN bucket})

RECURSIVE collect_from(_, _, _, _)
\* the loop of _collect_master_entries over the values of the three buckets
collect_from(es, i, seen, entries) ==
    IF i > Len(es) THEN entries
    ELSE IF entry_key(es[i]) = <<>> \/ entry_key(es[i]) \in seen
    THEN collect_from(es, i + 1, seen, entries)
    ELSE collect_from(es, i + 1, seen \cup {entry_key(es[i])}, Append(entries, es[i]))

\* _collect_master_entries(lookup)
collect_master_entries(lookup) ==
    collect_from(bucket_values(lookup.by_url) \o bucket_values(lookup.by_tvg)
                     \o bucket_values(lookup.by_name), 1, {}, <<>>)

\* _source_category(raw, origin_path)
source_category(raw, origin) ==
    IF classify_source(raw, origin) = "free_tv" THEN FREE_TV_LABEL
    ELSE IF classify_source(raw, origin) = "iptv_org" THEN IPTV_ORG_CATEGORY
    ELSE UNKNOWN_LABEL

\* _m3u_source_label(raw, origin_path)
m3u_source_label(raw, origin) ==
    IF classify_source(raw, origin) = "free_tv" THEN FREE_TV_LABEL
    ELSE IF classify_source(raw, origin) = "iptv_org" THEN IPTV_ORG
    ELSE UNKNOWN_LABEL

\* the key of a row in existing_keys
row_key(row) ==
    lower(strip(channel_key(get(row, <<"ChannelName", "Name", "Channel">>),
                            get(row, <<"TvgId", "tvg-id">>),
                            get(row, <<"Url", "URL", "StreamUrl">>))))

\* is_row_free
is_row_free(row) ==
    \/ contains(lower(get(row, <<"m3u_source", "Source">>)), FREE_TV)
    \/ contains(lower(get(row, <<"CountrySource">>)), FREE_TV)
    \/ "free_tv" \in preferred_source_kinds(row)

\* master_entry of a row (<<>> when None)
row_master_entry(row, lookup) ==
    IF \/ get(row, <<"Country", "tvg-country">>) = <<>>
       \/ get(row, <<"GroupTitle", "Group", "Category">>) = <<>>
       \/ ~is_row_free(row)
    THEN find_master_entry(lookup, get(row, <<"ChannelName", "Name", "Channel">>),
                           get(row, <<"TvgId", "tvg-id">>),
                           get(row, <<"Url", "URL", "StreamUrl">>),
                           preferred_source_kinds(row))
    ELSE <<>>

\* attrs.get("group-title") or attrs.get("group") or attrs.get("category") or ""
attrs_group(attrs) ==
    Or(Or(Get(attrs, K_group_title_h, <<>>), Get(attrs, K_GROUP, <<>>)),
       Get(attrs, K_CATEGORY, <<>>))

\* group_name of a row once its master entry me is known
row_group_name(row, me) ==
    IF get(row, <<"GroupTitle", "Group", "Category">>) = <<>> /\ me # <<>>
    THEN attrs_group(me[1].attrs)
    ELSE get(row, <<"GroupTitle", "Group", "Category">>)

\* should_fill_country
should_fill_country(row, me, group_name) ==
    /\ get(row, <<"Country", "tvg-country">>) = <<>>
    /\ group_name # <<>>
    /\ \/ is_row_free(row)
       \/ (me # <<>> /\ classify_source(me[1].source, me[1].origin_path) = "free_tv")

\* base_source of the country label
base_source(me) ==
    IF me # <<>> THEN source_category(me[1].source, me[1].origin_path) ELSE FREE_TV_LABEL

\* label written to CountrySource when the country is filled in
fill_label(base) ==
    IF contains(lower(IF startswith(lower(base), FREE_TV) THEN base ELSE FREE_TV_LABEL),
                K_GROUP)
    THEN IF startswith(lower(base), FREE_TV) THEN base ELSE FREE_TV_LABEL
    ELSE (IF startswith(lower(base), FREE_TV) THEN base ELSE FREE_TV_LABEL) \o GROUP_MARK

\* the row after the first loop of _sync_favourites_with_master, given its master
\* entry and its group name
backfill(row, me, group_name) ==
    IF should_fill_country(row, me, group_name)
    THEN set_field(
             set_field(
                 IF get(row, <<"GroupTitle", "Group", "Category">>) = <<>> /\ me # <<>>
                        /\ group_name # <<>>
                 THEN set_field(row, "GroupTitle", group_name) ELSE row,
                 "Country", group_name),
             "CountrySource", fill_label(base_source(me)))
    ELSE IF get(row, <<"GroupTitle", "Group", "Category">>) = <<>> /\ me # <<>>
            /\ group_name # <<>>
    THEN set_field(row, "GroupTitle", group_name)
    ELSE row

\* one row of the first loop, with its master entry
sync_row_with(row, me) == backfill(row, me, row_group_name(row, me))

\* one row of the first loop
sync_row(row, lookup) == sync_row_with(row, row_master_entry(row, lookup))

RECURSIVE join_lines(_)
\* "\n".join(lines)
join_lines(ls) ==
    IF ls = <<>> THEN <<>>
    ELSE IF Len(ls) = 1 THEN ls[1]
    ELSE ls[1] \o <<"\n">> \o join_lines(Tail(ls))

\* headers: the columns of the table
headers_of(fs) == UNION {DOMAIN fs[i] : i \in DOMAIN fs} \cup {"New", "m3u_source", "Source"}

\* country of an appended row
entry_country(entry) ==
    IF Or(Get(entry.attrs, K_TVG_COUNTRY, <<>>), Get(entry.attrs, K_COUNTRY, <<>>)) = <<>>
       /\ classify_source(entry.source, entry.origin_path) = "free_tv"
       /\ attrs_group(entry.attrs) # <<>>
    THEN attrs_group(entry.attrs)
    ELSE Or(Get(entry.attrs, K_TVG_COUNTRY, <<>>), Get(entry.attrs, K_COUNTRY, <<>>))

\* country_source_label of an appended row
entry_country_source(entry) ==
    IF Or(Get(entry.attrs, K_TVG_COUNTRY, <<>>), Get(entry.attrs, K_COUNTRY, <<>>)) = <<>>
       /\ classify_source(entry.source, entry.origin_path) = "free_tv"
       /\ attrs_group(entry.attrs) # <<>>
    THEN source_category(entry.source, entry.origin_path) \o GROUP_MARK
    ELSE source_category(entry.source, entry.origin_path)

\* the row appended for a master entry, over the columns hs
new_row(entry, hs) ==
    [col \in hs \cup {"ChannelName", "TvgId", "Url", "GroupTitle", "Favourite", "New",
                      "AddedOn", "Country", "CountrySource", "m3u_source", "Source"} |->
        CASE col = "ChannelName" -> Or(entry.name, Get(entry.attrs, K_tvg_name_h, <<>>))
          [] col = "TvgId" -> Or(entry.tvg_id, Get(entry.attrs, K_tvg_id_h, <<>>))
          [] col = "Url" -> join_lines(entry.props \o <<entry.url>>)
          [] col = "GroupTitle" -> attrs_group(entry.attrs)
          [] col = "Favourite" -> <<"0">>
          [] col = "New" -> <<"1">>
          [] col = "AddedOn" -> TODAY
          [] col = "Country" -> entry_country(entry)
          [] col = "CountrySource" -> entry_country_source(entry)
          [] col \in {"m3u_source", "Source"} ->
                m3u_source_label(entry.source, entry.origin_path)
          [] OTHER -> <<>>]

RECURSIVE append_from_all(_, _, _, _, _)
\* a second loop that appends a row for every entry of an allowed source
append_from_all(entries, i, existing_keys, fs, hs) ==
    IF i > Len(entries) THEN fs
    ELSE IF classify_source(entries[i].source, entries[i].origin_path)
                \notin {"free_tv", "iptv_org"}
    THEN append_from_all(entries, i + 1, existing_keys, fs, hs)
    ELSE append_from_all(entries, i + 1, existing_keys,
                         Append(fs, new_row(entries[i], hs)), hs)

RECURSIVE append_from(_, _, _, _, _)
\* the second loop of _sync_favourites_with_master, from entry i, with existing_keys
append_from(entries, i, existing_keys, fs, hs) ==
    IF i > Len(entries) THEN fs
    ELSE IF classify_source(entries[i].source, entries[i].origin_path)
                \notin {"free_tv", "iptv_org"}
    THEN append_from(entries, i + 1, existing_keys, fs, hs)
    ELSE IF entry_key(entries[i]) = <<>> \/ entry_key(entries[i]) \in existing_keys
    THEN append_from(entries, i + 1, existing_keys, fs, hs)
    ELSE append_from(entries, i + 1, existing_keys \cup {entry_key(entries[i])},
                     Append(fs, new_row(entries[i], hs)), hs)

\* favs after _sync_favourites_with_master(tv_fav_path, favs, hdr, headers,
\* master_entries, master_lookup=master_lookup)
sync_favourites_with_master(fs, master_entries, lookup) ==
    IF master_entries = <<>> THEN fs
    ELSE append_from(master_entries, 1, {row_key(fs[i]) : i \in DOMAIN fs} \ {<<>>},
                     [i \in DOMAIN fs |-> sync_row(fs[i], lookup)], headers_of(fs))

(***************************************************************************)
(* Inputs of prune_m3u.py.                                                 *)
(***************************************************************************)
MaxFavs == 2

\* the runs of prune_m3u.py over the same favourites table
MaxRuns == 2

URL_S == <<"h",":","/","/","s">>

URL_T == <<"h",":","/","/","t">>

URL_X == <<"h",":","/","/","x">>

URL_Y == <<"h",":","/","/","y">>

GERMANY == <<"G","e","r","m","a","n","y">>

\* a row of tv_favourites.csv with its descriptive columns empty
FavRow(fav, inc, url, name, tvg, src) ==
    [Favourite |-> fav, Include |-> inc, Url |-> url, ChannelName |-> name,
     TvgId |-> tvg, Source |-> src, Country |-> <<>>, GroupTitle |-> <<>>,
     Logo |-> <<>>, CountrySource |-> <<>>]

\* the row with its descriptive columns filled in
FavRowWith(row, country, group, logo, country_source) ==
    [row EXCEPT !.Country = country, !.GroupTitle = group, !.Logo = logo,
                !.CountrySource = country_source]

FavPool ==
    { FavRow(<<"1">>, <<>>, URL_S, N_B, ID_b_uk, <<>>),
      FavRow(<<"Y","E","S">>, <<>>, <<>>, N_B, <<>>, <<>>),
      FavRow(<<"n","o">>, <<"y">>, URL_S, N_B, <<>>, <<>>),
      FavRow(<<>>, <<"y">>, KODIPROP, N_B, <<>>, <<>>),
      FavRow(<<"1">>, <<>>, KODIPROP \o <<"\n">> \o URL_X, N_C_D,
             ID_b_uk \o <<"@","s","d">>, <<"I","P","T","V","-","o","r","g">>),
      FavRow(<<"t","r","u","e">>, <<>>, URL_X, <<>>, <<"Q",".","U","K">>, FREE_TV),
      FavRow(<<"1">>, <<>>, URL_X, N_C_D, ID_b_uk, <<"U","n","k","n","o","w","n">>),
      FavRow(<<>>, <<>>, URL_T, <<"Q">>, ID_q_uk, <<>>),
      FavRowWith(FavRow(<<"1">>, <<>>, URL_T, <<"Q">>, ID_x_uk, <<>>),
                 <<"u","s">>, <<"H">>, <<"M">>, <<>>),
      FavRow(<<"1">>, <<>>, URL_T, <<>>, <<>>, <<>>),
      FavRowWith(FavRow(<<"y">>, <<>>, URL_S, <<>>, <<>>, <<>>), <<>>, <<"H">>, <<>>, <<>>),
      FavRowWith(FavRow(<<>>, <<>>, URL_S, N_B, <<>>, <<>>), <<>>, <<>>, <<>>, FREE_TV_LABEL) }

M3U_EXT == <<".","m","3","u">>

\* free_tv_master.m3u, with an entry whose address line is blank
FreeTvMaster ==
    [exists |-> TRUE, base |-> FREE_TV_MASTER \o M3U_EXT, label |-> FREE_TV_MASTER,
     lines |-> <<EXTM3U,
                 ExtInfLine(Attr(K_tvg_id_h, ID_b_uk) \o Attr(K_tvg_name_h, N_B_HD)
                                \o Attr(K_group_title_h, GERMANY), N_B),
                 KODIPROP,
                 URL_S,
                 ExtInfLine(Attr(K_tvg_id_u, ID_q_uk), <<"Q">>),
                 <<" ", " ">> >>]

\* a playlist given with --master-m3u
CustomMaster ==
    [exists |-> TRUE, base |-> IPTV_MASTER \o M3U_EXT,
     label |-> <<"c","u","s","t","o","m","_","1">>,
     lines |-> <<EXTM3U,
                 ExtInfLine(Attr(K_tvg_id_h, <<"B",".","U","K">>)
                                \o Attr(K_TVG_COUNTRY, <<"d","e">>)
                                \o Attr(K_TVG_LOGO, <<"L">>)
                                \o Attr(K_group_title_h, <<"G">>), <<"Q">>),
                 URL_T,
                 ExtInfLine(Attr(K_group_title_h, GERMANY), N_C_D),
                 <<"#","E","X","T","G","R","P",":","g">>,
                 URL_S,
                 ExtInfLine(Attr(K_tvg_name_h, N_B_HD), <<>>),
                 KODIPROP,
                 URL_Y>>]

\* master.m3u, absent
MissingMaster ==
    [exists |-> FALSE, base |-> <<"m","a","s","t","e","r">> \o M3U_EXT,
     label |-> <<"c","o","m","b","i","n","e","d","_","m","a","s","t","e","r">>, lines |-> <<>>]

MasterPathsPool ==
    { <<>>, <<FreeTvMaster>>, <<CustomMaster>>, <<FreeTvMaster, CustomMaster>>,
      <<CustomMaster, FreeTvMaster>>, <<MissingMaster, FreeTvMaster>> }

NoLookup == [by_url |-> EmptyMap, by_tvg |-> EmptyMap, by_name |-> EmptyMap]

NotWritten == [fo |-> <<>>, written |-> 0, sk_notfav |-> 0, sk_nourl |-> 0]

(***************************************************************************)
(* The catalog of prune_epg_from_country.py: load_epg_channels and         *)
(* consolidate.  A file of the EPG directory is [ok, channels,             *)
(* programmes]; ok is whether ElementTree parses it.                       *)
(***************************************************************************)
XmlFile(channels, programmes) == [ok |-> TRUE, channels |-> channels, programmes |-> programmes]

\* a file on which ET.parse and ET.fromstring raise ParseError
Malformed == [ok |-> FALSE, channels |-> <<>>, programmes |-> <<>>]

\* norm(s)
epg_norm(s) == IF s = None THEN <<>> ELSE strip(sub_spaces(sub_non_alnum(lower(strip(s)))))

\* disp = (disp_el.text or "").strip() if disp_el is not None else cid
epg_disp(ch, cid) == IF ch.dnames = <<>> THEN cid ELSE strip(ch.dnames[1])

NoCatalog == [id2rec |-> EmptyMap, name2rec |-> EmptyMap, keys |-> <<>>]

\* the registrations of a channel with (non-empty) id cid, display name disp
\* and key = norm(disp): the first record of an id and of a key stays
index_rec(cat, cid, disp, key) ==
    [id2rec   |-> IF cid \in DOMAIN cat.id2rec THEN cat.id2rec
                  ELSE Put(cat.id2rec, cid, [id |-> cid, name |-> disp]),
     name2rec |-> IF key # <<>> /\ key \notin DOMAIN cat.name2rec
                  THEN Put(cat.name2rec, key, [id |-> cid, name |-> disp])
                  ELSE cat.name2rec,
     keys     |-> IF key # <<>> /\ key \notin DOMAIN cat.name2rec
                  THEN Append(cat.keys, key)
                  ELSE cat.keys]

\* the body of the loop over the channel elements, for one element
index_channel(cat, ch) ==
    IF strip(ch.id) = <<>> THEN cat
    ELSE index_rec(cat, strip(ch.id), epg_disp(ch, strip(ch.id)),
                   epg_norm(epg_disp(ch, strip(ch.id))))

RECURSIVE index_channels(_, _, _)
index_channels(cat, chs, i) ==
    IF i > Len(chs) THEN cat
    ELSE index_channels(index_channel(cat, chs[i]), chs, i + 1)

RECURSIVE index_files(_, _, _)
\* for p in xml_paths: a file that does not parse is skipped
index_files(cat, paths, p) ==
    IF p > Len(paths) THEN cat
    ELSE IF ~paths[p].ok THEN index_files(cat, paths, p + 1)
    ELSE index_files(index_channels(cat, paths[p].channels, 1), paths, p + 1)

\* if not xml_paths: raise FileNotFoundError(...)
no_xml_files(paths) == paths = <<>>

\* load_epg_channels(epg_dir), past that test
load_epg_channels(paths) == index_files(NoCatalog, paths, 1)

RECURSIVE kept_channels(_, _, _, _, _)
\* consolidate's loop over one file's channel elements: <<elements appended, seen>>
kept_channels(keep, d, chs, i, seen) ==
    IF i > Len(chs) THEN <<<<>>, seen>>
    ELSE IF strip(chs[i].id) \in keep /\ strip(chs[i].id) \notin seen
         THEN LET rest == kept_channels(keep, d, chs, i + 1, seen \cup {strip(chs[i].id)})
              IN <<<<ChannelEl(d, i, chs[i])>> \o rest[1], rest[2]>>
         ELSE kept_channels(keep, d, chs, i + 1, seen)

\* consolidate's loop over one file's programme elements
kept_programmes(keep, d, pgs) ==
    SelectSeq([i \in DOMAIN pgs |-> ProgrammeEl(d, i, pgs[i])], LAMBDA e : strip(e.id) \in keep)

RECURSIVE consolidate_from(_, _, _, _)
\* the elements of file p, then those of the files after it
consolidate_with(keep, paths, p, chs) ==
    chs[1] \o kept_programmes(keep, p, paths[p].programmes)
           \o consolidate_from(keep, paths, p + 1, chs[2])

\* for p in xml_paths: a file that does not parse is skipped
consolidate_from(keep, paths, p, seen) ==
    IF p > Len(paths) THEN <<>>
    ELSE IF ~paths[p].ok THEN consolidate_from(keep, paths, p + 1, seen)
    ELSE consolidate_with(keep, paths, p, kept_channels(keep, p, paths[p].channels, 1, seen))

\* consolidate(epg_dir, out_xml, keep_ids): the elements of the tree it writes
consolidate(paths, keep) == consolidate_from(keep, paths, 1, {})

\* the parse step of load_xml_channels, which handles no exception
all_parse(paths) == \A p \in DOMAIN paths : paths[p].ok

(***************************************************************************)
(* The inputs of match_epg_m3u.py: collect_country_codes,                  *)
(* ensure_country_epgs and download_epg_urls.  tv_favourites.csv is        *)
(* [exists, rows], a row [Favourite, Country]; the EPG directory maps the  *)
(* country code of a file epg_<code>.xml.gz to the file.                   *)
(***************************************************************************)
NoTable == [exists |-> FALSE, rows |-> <<>>]

NoPlaylist == [exists |-> FALSE, lines |-> <<>>]

CODE_UK == <<"U","K">>

CODE_GB == <<"G","B">>

CODE_DE == <<"D","E">>

\* _normalize_country_code(code), with COUNTRY_CODE_NORMALIZATION = {"UK": "GB"}
normalize_country_code(code) ==
    IF code = <<>> THEN <<>>
    ELSE IF upper(strip(code)) = CODE_UK THEN CODE_GB ELSE upper(strip(code))

\* re.fullmatch(r"[A-Z]{2}", code)
is_iso_code(code) == Len(code) = 2 /\ code[1] \in UpperSet /\ code[2] \in UpperSet

\* a cell pd.read_csv reads as a number
is_number(cell) == cell # <<>> /\ \A i \in DOMAIN cell : cell[i] \in DigitSet

\* pd.api.types.is_numeric_dtype(fav_col): every cell is a number or blank
is_numeric_column(rs) ==
    \A i \in DOMAIN rs : rs[i].Favourite = <<>> \/ is_number(rs[i].Favourite)

FavWords == {<<"1">>, <<"t","r","u","e">>, <<"y","e","s">>, <<"y">>}

\* mask: fav_col.fillna(0).astype(float) >= 1.0 for a numeric column,
\* fav_col.fillna("").astype(str).str.strip().str.lower().isin({...}) otherwise
fav_mask(rs, i) ==
    IF is_numeric_column(rs)
    THEN is_number(rs[i].Favourite) /\ \E k \in DOMAIN rs[i].Favourite : rs[i].Favourite[k] # "0"
    ELSE lower(strip(rs[i].Favourite)) \in FavWords

\* codes: the two-letter codes of the Country cells of the favourite rs
fav_codes(rs) ==
    {c \in {normalize_country_code(rs[i].Country) :
               i \in {j \in DOMAIN rs : fav_mask(rs, j) /\ rs[j].Country # <<>>}} :
        is_iso_code(c)}

CharRank(c) == CHOOSE k \in DOMAIN UpperSeq : UpperSeq[k] = c

code_before(a, b) ==
    \/ CharRank(a[1]) < CharRank(b[1])
    \/ a[1] = b[1] /\ CharRank(a[2]) < CharRank(b[2])

first_code(S) == CHOOSE x \in S : \A y \in S \ {x} : code_before(x, y)

RECURSIVE sorted_codes(_)
\* sorted(codes)
sorted_codes(S) == IF S = {} THEN <<>> ELSE <<first_code(S)>> \o sorted_codes(S \ {first_code(S)})

\* collect_country_codes(tv_fav_path)
collect_country_codes(csv) == IF ~csv.exists THEN <<>> ELSE sorted_codes(fav_codes(csv.rows))

\* the directory after the download of one file: urlopen raises ("fail") and the
\* file stays as it was; the copy succeeds ("ok"), or raises ("cut") and leaves a
\* file that cannot be read
after_download(dir, code, answer) ==
    IF answer.kind = "fail" THEN dir ELSE Put(dir, code, answer.file)

RECURSIVE download_from(_, _, _, _)
\* downloaded.append(dest), also after a failure when os.path.isfile(dest)
with_download(dir, codes, i, answers) ==
    [dir        |-> download_from(dir, codes, i + 1, answers).dir,
     downloaded |-> (IF codes[i] \in DOMAIN dir THEN <<codes[i]>> ELSE <<>>)
                        \o download_from(dir, codes, i + 1, answers).downloaded]

\* download_epg_urls(epg_dir, urls, log_path) from the i-th url on: the directory
\* and the files downloaded, a file left from an earlier run included
download_from(dir, codes, i, answers) ==
    IF i > Len(codes) THEN [dir |-> dir, downloaded |-> <<>>]
    ELSE with_download(after_download(dir, codes[i], answers[codes[i]]), codes, i, answers)

\* ensure_country_epgs(epg_dir, codes, env, log_path), with codes
ensure_country_epgs(dir, codes, answers) == download_from(dir, codes, 1, answers)

\* the files of the paths
files_of(dir, paths) == [i \in DOMAIN paths |-> dir[paths[i]]]

CatalogIdle ==
    /\ xml_paths = <<>>
    /\ cat_pc = "off"
    /\ id2rec = EmptyMap
    /\ name2rec = EmptyMap
    /\ name_keys = <<>>
    /\ tv = <<>>

RunIdle ==
    /\ fav_csv = NoTable
    /\ country_codes = <<>>
    /\ epg_dir = EmptyMap
    /\ epg_files = <<>>
    /\ m3u_in = NoPlaylist

(***************************************************************************)
(* sd_fetch_favourites_epg.py: resolve_station_ids, run_tv_grab and        *)
(* prune_xmltv.  A file is [by, gz, channels, programmes]: who wrote it    *)
(* ("none" when there is no file), whether it is gzipped, the ids of its   *)
(* channel elements and the channel attributes of its programme elements.  *)
(***************************************************************************)
NoArgs == [no_gzip |-> FALSE, gz_suffix |-> FALSE, dry_run |-> FALSE]

NoGrab == [filtered |-> FALSE, returncode |-> 0, retried |-> FALSE]

NoXmltv == [by |-> "none", gz |-> FALSE, channels |-> <<>>, programmes |-> <<>>]

NoFiles == [output_xml |-> NoXmltv, output_path |-> NoXmltv]

\* norm_name(value) of sd_fetch_favourites_epg.py
fetch_norm_name(value) == lower(strip(value))

\* read_favourites(csv_path), with the file
read_favourites(table) ==
    SelectSeq(table, LAMBDA r : lower(strip(r.Favourite)) \in FavWords)

\* match_by_name.get(key): the last row of the report with that name, None without one
match_by_name(report, key) ==
    IF \E i \in DOMAIN report : fetch_norm_name(report[i].name) = key
    THEN report[SetMax({i \in DOMAIN report : fetch_norm_name(report[i].name) = key})].matched_id
    ELSE None

SCHEDULESDIRECT == <<"s","c","h","e","d","u","l","e","s","d","i","r","e","c","t">>

\* tid.startswith("I") and "schedulesdirect" in tid
looks_like_station(tid) == startswith(tid, <<"I">>) /\ contains(tid, SCHEDULESDIRECT)

\* the station id of a favourite, <<>> without one
station_of(fav, matched) ==
    IF matched # None /\ strip(matched) # <<>> THEN strip(matched)
    ELSE IF looks_like_station(strip(fav.TvgId)) THEN strip(fav.TvgId)
    ELSE <<>>

\* coverage of resolve_station_ids(favourites, match_rows)
coverage_of(favourites, report) ==
    [i \in DOMAIN favourites |->
        <<strip(favourites[i].ChannelName),
          station_of(favourites[i],
                     match_by_name(report, fetch_norm_name(strip(favourites[i].ChannelName))))>>]

\* resolved of resolve_station_ids(favourites, match_rows)
resolve_station_ids(favourites, report) ==
    {coverage_of(favourites, report)[i][2] : i \in DOMAIN favourites} \ {<<>>}

UNKNOWN_OPTION == <<"u","n","k","n","o","w","n"," ","o","p","t","i","o","n">>

CHANNEL_FILE == <<"-","-","c","h","a","n","n","e","l","-","f","i","l","e">>

\* "unknown option" in stderr.lower() or "--channel-file" in stderr
rejected(stderr) == contains(lower(stderr), UNKNOWN_OPTION) \/ contains(stderr, CHANNEL_FILE)

\* run_tv_grab(station_file, days, output_xml): first is the grabber's answer to the
\* invocation with --channel-file, second its answer to the one without
run_tv_grab(first, second) ==
    IF first.returncode = 0 THEN [filtered |-> TRUE, returncode |-> 0, retried |-> FALSE]
    ELSE IF rejected(first.stderr)
         THEN [filtered |-> FALSE, returncode |-> second.returncode, retried |-> TRUE]
         ELSE [filtered |-> FALSE, returncode |-> first.returncode, retried |-> FALSE]

\* the file at output_xml after the grabber ran
grabbed(file, answer) ==
    IF answer.wrote
    THEN [by |-> "grabber", gz |-> FALSE, channels |-> answer.channels,
          programmes |-> answer.programmes]
    ELSE file

\* a prune_xmltv that retains every channel element
keep_channel_any(cid, keep, kept) == TRUE

\* if cid in keep_ids and cid not in kept_channels
keep_channel(cid, keep, kept) == cid \in keep /\ cid \notin kept

RECURSIVE prune_channels(_, _, _, _)
\* prune_xmltv's loop over the channel elements: <<ids appended, kept_channels>>
prune_channels(chs, i, keep, kept) ==
    IF i > Len(chs) THEN <<<<>>, kept>>
    ELSE IF keep_channel(chs[i], keep, kept)
         THEN <<<<chs[i]>> \o prune_channels(chs, i + 1, keep, kept \cup {chs[i]})[1],
                prune_channels(chs, i + 1, keep, kept \cup {chs[i]})[2]>>
         ELSE prune_channels(chs, i + 1, keep, kept)

\* prune_xmltv(src, dst, keep_ids, gzip_output): the file written at dst
prune_xmltv(src, keep, gzip_output) ==
    [by         |-> "prune_xmltv",
     gz         |-> gzip_output,
     channels   |-> prune_channels(src.channels, 1, keep, {})[1],
     programmes |-> SelectSeq(src.programmes,
                        LAMBDA c : c \in prune_channels(src.channels, 1, keep, {})[2])]

\* gzip_output = not args.no_gzip and output_path.suffix == ".gz"
gzip_output_of(args) == ~args.no_gzip /\ args.gz_suffix

\* output_xml = output_path.with_suffix(".xml") if output_path.suffix == ".gz" else output_path
xml_is_output(args) == ~args.gz_suffix

\* the file the grabber writes, as main sees it
xml_file(args, files) == IF xml_is_output(args) THEN files.output_path ELSE files.output_xml

\* the files after the grabber ran
files_grabbed(args, files, answer) ==
    IF xml_is_output(args)
    THEN [files EXCEPT !.output_path = grabbed(files.output_path, answer)]
    ELSE [files EXCEPT !.output_xml = grabbed(files.output_xml, answer)]

\* prune_xmltv(output_xml, output_path, station_ids, gzip_output=gzip_output), then
\* output_xml.unlink() when it is another file
files_pruned(args, files, keep) ==
    [output_xml  |-> NoXmltv,
     output_path |-> prune_xmltv(xml_file(args, files), keep, gzip_output_of(args))]

FetchIdle ==
    /\ fetch_pc = "off"
    /\ fetch_args = NoArgs
    /\ station_ids = {}
    /\ coverage = <<>>
    /\ grab = NoGrab
    /\ sd_files = NoFiles
    /\ ret = 0

AuxIdle == CatalogIdle /\ RunIdle /\ FetchIdle /\ outputs = {}

(***************************************************************************)
(* The run of prune_m3u.py: main, from the master playlists to the pruned  *)
(* playlist.                                                               *)
(***************************************************************************)
PruneIdle ==
    /\ prune_pc = "off"
    /\ favs = <<>>
    /\ tv_fav = <<>>
    /\ added = 0
    /\ runs = 0
    /\ master_paths = <<>>
    /\ master_lookup = NoLookup
    /\ pruned = NotWritten


(***************************************************************************)
(* The run of a script: its top-level code, one action per step.           *)
(***************************************************************************)
NormIdle == [v |-> "none", x |-> <<>>, out |-> <<>>]

PipeInit ==
    /\ m3u_file = <<>>
    /\ epg_docs = <<>>
    /\ alias_csv = NoFile
    /\ THRESH = None
    /\ m3u = <<>>
    /\ chan_map = <<>>
    /\ name_index = EmptyMap
    /\ id_suffix_index = EmptyMap
    /\ aliases = EmptyMap
    /\ rows = <<>>
    /\ lines = <<>>
    /\ matched_ids = {}
    /\ epg_out = <<>>

Init ==
    /\ norm = NormIdle
    /\ PruneIdle
    /\ AuxIdle
    /\ variant \in {"match", "sd"}
    /\ pc = "parse_m3u"
    /\ PipeInit

\* m3u = parse_m3u(...)
ParseM3U ==
    /\ pc = "parse_m3u"
    /\ \E f \in M3uFiles :
        /\ m3u_file' = f
        /\ m3u' = parse_m3u(variant, f)
    /\ pc' = "load"
    /\ UNCHANGED <<auxVars, pruneVars, norm, variant, epg_docs, alias_csv, THRESH, chan_map, name_index,
                   id_suffix_index, aliases, rows, lines, matched_ids, epg_out>>

\* chan_map, name_index, id_suffix_index = load_xml_channels(epg_files)
LoadChannels ==
    /\ pc = "load"
    /\ \E ds \in (IF variant = "sd" THEN EpgInputsSd ELSE EpgInputsMatch) :
        LET cat == load_xml_channels(variant, ds)
        IN /\ epg_docs' = ds
           /\ chan_map' = cat.chan_map
           /\ name_index' = cat.name_index
           /\ id_suffix_index' = cat.id_suffix_index
    /\ pc' = "aliases"
    /\ UNCHANGED <<auxVars, pruneVars, norm, variant, m3u_file, alias_csv, THRESH, m3u, aliases, rows, lines,
                   matched_ids, epg_out>>

\* aliases = read_aliases(...)
ReadAliases ==
    /\ pc = "aliases"
    /\ \E csv \in AliasFiles :
        /\ alias_csv' = csv
        /\ aliases' = read_aliases(variant, csv)
    /\ pc' = "match"
    /\ UNCHANGED <<auxVars, pruneVars, norm, variant, m3u_file, epg_docs, THRESH, m3u, chan_map, name_index,
                   id_suffix_index, rows, lines, matched_ids, epg_out>>

\* the verdicts best_match of script v can return for a row
row_verdicts(v, row, cm, ni, si) ==
    IF v = "sd" THEN sd_best_match(row, cm, ni) ELSE best_match(row, cm, ni, si)

\* row.update({"match_method": method, "matched_id": cid, "confidence": conf})
with_verdict(row, vd) ==
    [name |-> row.name, tvg_name |-> row.tvg_name, tvg_id |-> row.tvg_id, group |-> row.group,
     url |-> row.url, alias_target |-> row.alias_target, suffix |-> row.suffix,
     match_method |-> vd.method, matched_id |-> vd.matched_id, confidence |-> vd.confidence]

matched_row(v, row, cm, ni, si) == {with_verdict(row, vd) : vd \in row_verdicts(v, row, cm, ni, si)}

RECURSIVE match_rows(_, _, _, _, _, _, _)
\* the rows the loop over the playlist entries can build, from entry i on
match_rows(v, entries, i, al, cm, ni, si) ==
    IF i > Len(entries) THEN {<<>>}
    ELSE {<<r>> \o rest : r \in matched_row(v, make_row(v, entries[i], al), cm, ni, si),
                          rest \in match_rows(v, entries, i + 1, al, cm, ni, si)}

\* the rows are built and matched, and the report is written
Match ==
    /\ pc = "match"
    /\ rows' \in match_rows(variant, m3u, 1, aliases, chan_map, name_index, id_suffix_index)
    /\ outputs' = outputs \cup {"report"}
    /\ pc' = "rewrite"
    /\ UNCHANGED <<idleVars, pruneVars, norm, variant, m3u_file, epg_docs, alias_csv, THRESH, m3u, chan_map,
                   name_index, id_suffix_index, aliases, lines, matched_ids, epg_out>>

\* the playlist is rewritten
Rewrite ==
    /\ pc = "rewrite"
    /\ \E th \in (IF variant = "sd" THEN {SD_THRESH_DEFAULT, MATCH_THRESH} ELSE {MATCH_THRESH}) :
        /\ THRESH' = th
        /\ lines' = rewrite_m3u(th, m3u, rows)
        /\ matched_ids' = IF variant = "sd" THEN applied_ids(th, m3u, rows) ELSE {}
    /\ outputs' = outputs \cup {"m3u_out"}
    /\ pc' = "merge"
    /\ UNCHANGED <<idleVars, pruneVars, norm, variant, m3u_file, epg_docs, alias_csv, m3u, chan_map, name_index,
                   id_suffix_index, aliases, rows, epg_out>>

\* the EPG is filtered to the matched channels
MergeEPG ==
    /\ pc = "merge"
    /\ epg_out' = IF variant = "sd"
                  THEN sd_filter(sd_keep(matched_ids, rows), epg_docs[1])
                  ELSE merge_docs(keep_ids(THRESH, rows), epg_docs, 1, {})
    /\ outputs' = outputs \cup {"epg_out"}
    /\ pc' = "done"
    /\ UNCHANGED <<idleVars, pruneVars, norm, variant, m3u_file, epg_docs, alias_csv, THRESH, m3u, chan_map,
                   name_index, id_suffix_index, aliases, rows, lines, matched_ids>>

Next == ParseM3U \/ LoadChannels \/ ReadAliases \/ Match \/ Rewrite \/ MergeEPG

Spec == Init /\ [][Next]_vars

(***************************************************************************)
(* norm_name as a function: the specification that applies it twice.       *)
(***************************************************************************)
InitNorm ==
    /\ norm \in {[v |-> v, x |-> x, out |-> <<>>] : v \in {"match", "sd"}, x \in NormInputs}
    /\ variant = "none"
    /\ pc = "off"
    /\ PipeInit
    /\ PruneIdle
    /\ AuxIdle

\* norm_name applied to the input, then to its own result
Normalize ==
    /\ Len(norm.out) < 2
    /\ norm' = [norm EXCEPT !.out = Append(@, norm_name_of(norm.v,
                                   IF norm.out = <<>> THEN norm.x ELSE norm.out[Len(norm.out)]))]
    /\ UNCHANGED <<pipeVars, pruneVars, auxVars>>

NextNorm == Normalize

SpecNorm == InitNorm /\ [][NextNorm]_vars

(***************************************************************************)
(* prune_m3u.py: the specification of its run.                             *)
(***************************************************************************)
InitPrune ==
    /\ prune_pc = "read_csv"
    /\ tv_fav \in SeqsUpTo(FavPool, MaxFavs)
    /\ favs = <<>>
    /\ added = 0
    /\ runs = 0
    /\ master_paths \in MasterPathsPool
    /\ master_lookup = NoLookup
    /\ pruned = NotWritten
    /\ norm = NormIdle
    /\ variant = "none"
    /\ pc = "off"
    /\ PipeInit
    /\ AuxIdle

\* a run starts: favs, hdr, fav_headers = _read_csv(TV_FAV)
ReadCsv ==
    /\ prune_pc = "read_csv" \/ (prune_pc = "done" /\ runs < MaxRuns)
    /\ favs' = read_csv(tv_fav)
    /\ runs' = runs + 1
    /\ prune_pc' = "reset"
    /\ UNCHANGED <<tv_fav, added, master_paths, master_lookup, pruned, norm, pipeVars, auxVars>>

\* _reset_new_flags(TV_FAV, favs, hdr, fav_headers, ...), which writes the table
\* when it changed a row
ResetNewFlags ==
    /\ prune_pc = "reset"
    /\ favs' = reset_new_flags(favs)
    /\ tv_fav' = IF reset_new_flags(favs) # favs THEN reset_new_flags(favs) ELSE tv_fav
    /\ prune_pc' = "parse_master"
    /\ UNCHANGED <<added, runs, master_paths, master_lookup, pruned, norm, pipeVars, auxVars>>

\* master_lookup = _parse_master_playlist(master_paths)
ParseMasterPlaylist ==
    /\ prune_pc = "parse_master"
    /\ master_lookup' = parse_master_playlist(master_paths)
    /\ prune_pc' = "sync"
    /\ UNCHANGED <<favs, tv_fav, added, runs, master_paths, pruned, norm, pipeVars, auxVars>>

\* master_entries = _collect_master_entries(master_lookup);
\* added = _sync_favourites_with_master(TV_FAV, favs, ..., master_entries, ...),
\* which writes the table when it appended or filled in anything
SyncFavourites ==
    /\ prune_pc = "sync"
    /\ favs' = sync_favourites_with_master(favs, collect_master_entries(master_lookup),
                                           master_lookup)
    /\ added' = Len(favs') - Len(favs)
    /\ tv_fav' = IF favs' # favs THEN favs' ELSE tv_fav
    /\ prune_pc' = "write"
    /\ UNCHANGED <<runs, master_paths, master_lookup, pruned, norm, pipeVars, auxVars>>

\* written, sk_notfav, sk_nourl, ... = write_pruned_m3u_from_favs(favs, hdr, pruned_out, ...)
WritePruned ==
    /\ prune_pc = "write"
    /\ pruned' = write_pruned_m3u_from_favs(favs, master_lookup)
    /\ prune_pc' = "done"
    /\ UNCHANGED <<favs, tv_fav, added, runs, master_paths, master_lookup, norm, pipeVars, auxVars>>

NextPrune ==
    ReadCsv \/ ResetNewFlags \/ ParseMasterPlaylist \/ SyncFavourites \/ WritePruned

SpecPrune == InitPrune /\ [][NextPrune]_vars

(***************************************************************************)
(* The catalog builds over files that may fail to parse: the               *)
(* specification of load_xml_channels (match_epg_m3u.py) and of            *)
(* load_epg_channels followed by consolidate (prune_epg_from_country.py).  *)
(***************************************************************************)
MaxFiles == 3

FilePool ==
    { Malformed,
      XmlFile(<<[id |-> ID_b_uk, dnames |-> <<N_B>>]>>, <<[channel |-> ID_b_uk]>>),
      XmlFile(<<[id |-> ID_c_us, dnames |-> <<N_B, N_C_D_E_F_G>>],
                [id |-> <<>>, dnames |-> <<N_B>>]>>, <<[channel |-> ID_c_us]>>),
      XmlFile(<<[id |-> ID_b_uk_ws, dnames |-> <<N_B_HD>>],
                [id |-> ID_b_gb, dnames |-> <<>>]>>, <<>>) }

KeepPool == SUBSET {ID_b_uk, ID_c_us}

\* match_epg_m3u.py reaches load_xml_channels with at least one file
InitCatalog ==
    /\ variant \in {"match", "prune_epg"}
    /\ xml_paths \in SeqsUpTo(FilePool, MaxFiles)
    /\ variant = "match" => xml_paths # <<>>
    /\ cat_pc = "load"
    /\ id2rec = EmptyMap
    /\ name2rec = EmptyMap
    /\ name_keys = <<>>
    /\ tv = <<>>
    /\ RunIdle
    /\ FetchIdle
    /\ outputs = {}
    /\ norm = NormIdle
    /\ pc = "off"
    /\ PipeInit
    /\ PruneIdle

\* chan_map, name_index, id_suffix_index = load_xml_channels(epg_files): a ParseError
\* of ET.fromstring ends the run
LoadXmlChannels ==
    /\ variant = "match"
    /\ cat_pc = "load"
    /\ IF all_parse(xml_paths)
       THEN /\ chan_map' = load_xml_channels(variant, xml_paths).chan_map
            /\ name_index' = load_xml_channels(variant, xml_paths).name_index
            /\ id_suffix_index' = load_xml_channels(variant, xml_paths).id_suffix_index
            /\ cat_pc' = "done"
       ELSE /\ cat_pc' = "aborted"
            /\ UNCHANGED <<chan_map, name_index, id_suffix_index>>
    /\ UNCHANGED <<xml_paths, id2rec, name2rec, name_keys, tv, runVars, fetchVars, outputs, pruneVars, norm,
                   variant, pc, m3u_file,
                   epg_docs, alias_csv, THRESH, m3u, aliases, rows, lines, matched_ids, epg_out>>

\* _, name2rec, name_keys = load_epg_channels(EPG_DIR)
LoadEpgChannels ==
    /\ variant = "prune_epg"
    /\ cat_pc = "load"
    /\ IF no_xml_files(xml_paths)
       THEN /\ cat_pc' = "aborted"
            /\ UNCHANGED <<id2rec, name2rec, name_keys>>
       ELSE /\ id2rec' = load_epg_channels(xml_paths).id2rec
            /\ name2rec' = load_epg_channels(xml_paths).name2rec
            /\ name_keys' = load_epg_channels(xml_paths).keys
            /\ cat_pc' = "consolidate"
    /\ UNCHANGED <<xml_paths, tv, runVars, fetchVars, outputs, pruneVars, norm, pipeVars>>

\* consolidate(EPG_DIR, epg_out, keep_ids)
Consolidate ==
    /\ variant = "prune_epg"
    /\ cat_pc = "consolidate"
    /\ \E keep \in KeepPool : tv' = consolidate(xml_paths, keep)
    /\ cat_pc' = "done"
    /\ UNCHANGED <<xml_paths, id2rec, name2rec, name_keys, runVars, fetchVars, outputs, pruneVars, norm,
                   pipeVars>>

NextCatalog == LoadXmlChannels \/ LoadEpgChannels \/ Consolidate

SpecCatalog == InitCatalog /\ [][NextCatalog]_vars

(***************************************************************************)
(* match_epg_m3u.py from its first statement: the specification of a run   *)
(* whose inputs may be missing or unreadable.                              *)
(***************************************************************************)
FavCsvRows ==
    { [Favourite |-> <<"1">>, Country |-> <<"u","k">>],
      [Favourite |-> <<"1">>, Country |-> <<"d","e">>],
      [Favourite |-> <<"0">>, Country |-> <<"d","e">>],
      [Favourite |-> <<"y">>, Country |-> GERMANY],
      [Favourite |-> <<"1">>, Country |-> <<>>] }

MaxCsvRows == 2

FavCsvPool ==
    {NoTable} \cup {[exists |-> TRUE, rows |-> r] : r \in SeqsUpTo(FavCsvRows, MaxCsvRows)}

FileGB == XmlFile(<<[id |-> ID_b_uk, dnames |-> <<N_B>>]>>, <<[channel |-> ID_b_uk]>>)

FileDE == XmlFile(<<[id |-> ID_b_gb, dnames |-> <<>>]>>, <<>>)

AnswerPool ==
    { [kind |-> "ok", file |-> FileGB], [kind |-> "ok", file |-> FileDE],
      [kind |-> "fail", file |-> Malformed], [kind |-> "cut", file |-> Malformed] }

\* the EPG directory before the run: empty, or with a file of an earlier run
EpgDirPool == {EmptyMap, Put(EmptyMap, CODE_GB, FileDE)}

PlaylistPool ==
    {NoPlaylist} \cup
    {[exists |-> TRUE, lines |-> <<EXTM3U>> \o EntryLines(<<l>>, 1)] :
        l \in {ExtInfLine(Attr(K_tvg_id_u, ID_b_gb), N_B), ExtInfLine(<<>>, N_B)}}

InitRun ==
    /\ variant = "match"
    /\ pc = "codes"
    /\ PipeInit
    /\ fav_csv = NoTable
    /\ country_codes = <<>>
    /\ epg_dir \in EpgDirPool
    /\ epg_files = <<>>
    /\ m3u_in = NoPlaylist
    /\ outputs = {}
    /\ CatalogIdle
    /\ FetchIdle
    /\ norm = NormIdle
    /\ PruneIdle

\* country_codes = collect_country_codes(paths["tv_fav"])
CollectCountryCodes ==
    /\ pc = "codes"
    /\ \E csv \in FavCsvPool :
        /\ fav_csv' = csv
        /\ country_codes' = collect_country_codes(csv)
    /\ pc' = "epgs"
    /\ UNCHANGED <<epg_dir, epg_files, m3u_in, outputs, catVars, fetchVars, pruneVars, norm, variant,
                   m3u_file, epg_docs, alias_csv, THRESH, m3u, chan_map, name_index,
                   id_suffix_index, aliases, rows, lines, matched_ids, epg_out>>

\* epg_files = ensure_country_epgs(...), which raises SystemExit without codes
EnsureCountryEpgs ==
    /\ pc = "epgs"
    /\ IF country_codes = <<>>
       THEN /\ pc' = "aborted"
            /\ UNCHANGED <<epg_dir, epg_files>>
       ELSE \E answers \in [SeqSet(country_codes) -> AnswerPool] :
               /\ epg_dir' = ensure_country_epgs(epg_dir, country_codes, answers).dir
               /\ epg_files' = ensure_country_epgs(epg_dir, country_codes, answers).downloaded
               /\ pc' = "sources"
    /\ UNCHANGED <<fav_csv, country_codes, m3u_in, outputs, catVars, fetchVars, pruneVars, norm, variant,
                   m3u_file, epg_docs, alias_csv, THRESH, m3u, chan_map, name_index,
                   id_suffix_index, aliases, rows, lines, matched_ids, epg_out>>

\* the test that lets a run go on without EPG files
no_epg_sources_off(paths) == FALSE

\* if not epg_files
no_epg_sources(paths) == paths = <<>>

\* if not epg_files: raise SystemExit("No EPG sources available; aborting.")
CheckEpgSources ==
    /\ pc = "sources"
    /\ pc' = IF no_epg_sources(epg_files) THEN "aborted" ELSE "playlist"
    /\ UNCHANGED <<auxVars, pruneVars, norm, variant, m3u_file, epg_docs, alias_csv, THRESH, m3u,
                   chan_map, name_index, id_suffix_index, aliases, rows, lines, matched_ids,
                   epg_out>>

\* m3u = parse_m3u(paths["m3u_in"]), whose open raises when the file is missing
ReadPlaylist ==
    /\ pc = "playlist"
    /\ \E f \in PlaylistPool :
        /\ m3u_in' = f
        /\ IF f.exists
           THEN /\ m3u_file' = f.lines
                /\ m3u' = parse_m3u(variant, f.lines)
                /\ pc' = "files"
           ELSE /\ pc' = "aborted"
                /\ UNCHANGED <<m3u_file, m3u>>
    /\ UNCHANGED <<fav_csv, country_codes, epg_dir, epg_files, outputs, catVars, fetchVars, pruneVars, norm,
                   variant, epg_docs, alias_csv, THRESH, chan_map, name_index, id_suffix_index,
                   aliases, rows, lines, matched_ids, epg_out>>

\* chan_map, name_index, id_suffix_index = load_xml_channels(epg_files), where a
\* file that cannot be read or parsed ends the run
LoadDownloaded ==
    /\ pc = "files"
    /\ IF all_parse(files_of(epg_dir, epg_files))
       THEN /\ epg_docs' = files_of(epg_dir, epg_files)
            /\ chan_map' = load_xml_channels(variant, files_of(epg_dir, epg_files)).chan_map
            /\ name_index' = load_xml_channels(variant, files_of(epg_dir, epg_files)).name_index
            /\ id_suffix_index' =
                   load_xml_channels(variant, files_of(epg_dir, epg_files)).id_suffix_index
            /\ pc' = "aliases"
       ELSE /\ pc' = "aborted"
            /\ UNCHANGED <<epg_docs, chan_map, name_index, id_suffix_index>>
    /\ UNCHANGED <<auxVars, pruneVars, norm, variant, m3u_file, alias_csv, THRESH, m3u, aliases,
                   rows, lines, matched_ids, epg_out>>

NextRun ==
    \/ CollectCountryCodes
    \/ EnsureCountryEpgs
    \/ CheckEpgSources
    \/ ReadPlaylist
    \/ LoadDownloaded
    \/ ReadAliases
    \/ Match
    \/ Rewrite
    \/ MergeEPG

SpecRun == InitRun /\ [][NextRun]_vars

(***************************************************************************)
(* sd_fetch_favourites_epg.py: the specification of main, from the         *)
(* favourites to the file at the output path.                              *)
(***************************************************************************)
SID_1 == <<"I","1">>

SID_2 == <<"I","2",".">> \o SCHEDULESDIRECT

SID_X == <<"X","9">>

FetchFavRows ==
    { [Favourite |-> <<"1">>, ChannelName |-> <<" ">> \o N_B, TvgId |-> <<>>],
      [Favourite |-> <<"y">>, ChannelName |-> N_C_D, TvgId |-> SID_2],
      [Favourite |-> <<"0">>, ChannelName |-> N_B, TvgId |-> SID_2],
      [Favourite |-> <<"1">>, ChannelName |-> <<"Q">>, TvgId |-> ID_q_uk] }

MaxFetchFavs == 2

FetchFavPool ==
    {NoTable} \cup {[exists |-> TRUE, rows |-> r] : r \in SeqsUpTo(FetchFavRows, MaxFetchFavs)}

ReportPool ==
    { NoTable,
      [exists |-> TRUE, rows |-> <<>>],
      [exists |-> TRUE, rows |-> <<[name |-> <<"b">>, matched_id |-> SID_1]>>],
      [exists |-> TRUE, rows |-> <<[name |-> N_B, matched_id |-> SID_1],
                                   [name |-> <<"b"," ">>, matched_id |-> <<" ">>]>>],
      [exists |-> TRUE, rows |-> <<[name |-> N_C_D, matched_id |-> SID_X]>>] }

ArgsPool == [no_gzip : BOOLEAN, gz_suffix : BOOLEAN, dry_run : BOOLEAN]

\* the files before the run: none, or the output of an earlier run
FilesPool ==
    { NoFiles,
      [NoFiles EXCEPT !.output_path = [by |-> "earlier", gz |-> FALSE,
                                       channels |-> <<SID_X>>, programmes |-> <<>>]] }

Answer(code, stderr, wrote, chs, pgs) ==
    [returncode |-> code, stderr |-> stderr, wrote |-> wrote, channels |-> chs,
     programmes |-> pgs]

\* the grabber's answers to the invocation with --channel-file
FirstAnswers ==
    { Answer(0, <<>>, TRUE, <<SID_1>>, <<SID_1>>),
      Answer(2, <<"U","n","k","n","o","w","n"," ","o","p","t","i","o","n">>, FALSE, <<>>, <<>>),
      Answer(1, <<"n","o"," ","-","-","c","h","a","n","n","e","l","-","f","i","l","e">>, FALSE, <<>>, <<>>),
      Answer(1, <<"t","i","m","e","o","u","t">>, TRUE, <<SID_X>>, <<>>) }

\* the grabber's answers to the invocation without it
SecondAnswers ==
    { Answer(0, <<>>, TRUE, <<SID_1, SID_X, SID_1>>, <<SID_1, SID_X, SID_2>>),
      Answer(0, <<>>, TRUE, <<SID_X, SID_2>>, <<SID_1, SID_2>>),
      Answer(3, <<"t","i","m","e","o","u","t">>, TRUE, <<SID_X>>, <<SID_X>>),
      Answer(1, <<"t","i","m","e","o","u","t">>, FALSE, <<>>, <<>>) }

InitFetch ==
    /\ fetch_pc = "resolve"
    /\ fetch_args \in ArgsPool
    /\ station_ids = {}
    /\ coverage = <<>>
    /\ grab = NoGrab
    /\ sd_files \in FilesPool
    /\ ret = 0
    /\ CatalogIdle
    /\ RunIdle
    /\ outputs = {}
    /\ norm = NormIdle
    /\ variant = "none"
    /\ pc = "off"
    /\ PipeInit
    /\ PruneIdle

\* main, from read_favourites to the station list: read_favourites raises without
\* the table, main returns 0 without favourites, 1 without the report, 1 without
\* station ids (after the coverage report is written) and 0 after a dry run
ResolveStations ==
    /\ fetch_pc = "resolve"
    /\ \E table \in FetchFavPool, report \in ReportPool :
        IF ~table.exists
        THEN /\ fetch_pc' = "raised"
             /\ UNCHANGED <<station_ids, coverage, ret>>
        ELSE IF read_favourites(table.rows) = <<>>
        THEN /\ fetch_pc' = "returned"
             /\ ret' = 0
             /\ UNCHANGED <<station_ids, coverage>>
        ELSE IF ~report.exists
        THEN /\ fetch_pc' = "returned"
             /\ ret' = 1
             /\ UNCHANGED <<station_ids, coverage>>
        ELSE /\ station_ids' = resolve_station_ids(read_favourites(table.rows), report.rows)
             /\ coverage' = coverage_of(read_favourites(table.rows), report.rows)
             /\ IF station_ids' = {}
                THEN fetch_pc' = "returned" /\ ret' = 1
                ELSE IF fetch_args.dry_run
                THEN fetch_pc' = "returned" /\ ret' = 0
                ELSE fetch_pc' = "grab" /\ ret' = ret
    /\ UNCHANGED <<fetch_args, grab, sd_files, catVars, runVars, outputs, pruneVars, norm,
                   pipeVars>>

\* filtered, grab_result = run_tv_grab(tmp_path, args.days, output_xml); subprocess.run
\* raises FileNotFoundError when the grabber is not installed
RunTvGrab ==
    /\ fetch_pc = "grab"
    /\ \E installed \in BOOLEAN, first \in FirstAnswers, second \in SecondAnswers :
        IF ~installed
        THEN /\ fetch_pc' = "raised"
             /\ UNCHANGED <<grab, sd_files>>
        ELSE /\ grab' = run_tv_grab(first, second)
             /\ sd_files' = IF run_tv_grab(first, second).retried
                            THEN files_grabbed(fetch_args,
                                               files_grabbed(fetch_args, sd_files, first), second)
                            ELSE files_grabbed(fetch_args, sd_files, first)
             /\ fetch_pc' = "finish"
    /\ UNCHANGED <<fetch_args, station_ids, coverage, ret, catVars, runVars, outputs, pruneVars,
                   norm, pipeVars>>

\* main after run_tv_grab: the grabber's code is returned when it is not 0; the
\* download is pruned unless the grabber filtered it and the output is not gzipped
Finish ==
    /\ fetch_pc = "finish"
    /\ IF grab.returncode # 0
       THEN ret' = grab.returncode /\ UNCHANGED sd_files
       ELSE IF ~grab.filtered \/ gzip_output_of(fetch_args)
       THEN ret' = 0 /\ sd_files' = files_pruned(fetch_args, sd_files, station_ids)
       ELSE ret' = 0 /\ UNCHANGED sd_files
    /\ fetch_pc' = "returned"
    /\ UNCHANGED <<fetch_args, station_ids, coverage, grab, catVars, runVars, outputs, pruneVars,
                   norm, pipeVars>>

NextFetch == ResolveStations \/ RunTvGrab \/ Finish

SpecFetch == InitFetch /\ [][NextFetch]_vars

(***************************************************************************)
(* Properties of the resolver, the catalog, the normaliser and the         *)
(* assembler, each with a reachable state in which its case happens.       *)
(***************************************************************************)
\* the catalog is built
Loaded == pc \in {"aliases", "match", "rewrite", "merge", "done"}

\* the rows carry their verdicts
Matched == pc \in {"rewrite", "merge", "done"}

\* the output playlist is written
Rewritten == pc \in {"merge", "done"}

RowVerdict(r) == Verdict(r.match_method, r.matched_id, r.confidence)

\* the strategies in the order of precedence; the two suffix swaps are one stage
StrategyOrder ==
    <<"alias", "id_exact", "id_compact", "id_suffix_swap", "name_unique", "name_jaccard",
      "slug_guess", "unmatched">>

StageOf(method) ==
    IF method \in {"id_gb_to_uk", "id_uk_to_gb"} THEN "id_suffix_swap" ELSE method

RankOf(method) == CHOOSE k \in DOMAIN StrategyOrder : StrategyOrder[k] = StageOf(method)

\* the guard of a stage holds for a row against the catalog of the run; the script
\* sd_daily_match_epg_m3u.py has no suffix swap and no slug guess
StrategyApplies(stage, row) ==
    CASE stage = "alias" -> alias_applies(row)
      [] stage = "id_exact" -> id_exact_applies(row_tid(row), chan_map)
      [] stage = "id_compact" -> id_compact_applies(row_tid(row), chan_map)
      [] stage = "id_suffix_swap" ->
            /\ variant = "match"
            /\ gb_to_uk_applies(row_tid(row), chan_map) \/ uk_to_gb_applies(row_tid(row), chan_map)
      [] stage = "name_unique" ->
            name_unique_applies(norm_name_of(variant, row_nm(row)), name_index)
      [] stage = "name_jaccard" ->
            IF variant = "sd"
            THEN sd_jaccard_applies(name_tokens("sd", row_nm(row)), chan_map)
            ELSE name_jaccard_applies(tokens(row_nm(row)), chan_map,
                                      jaccard_cands(row_suf(row), chan_map, id_suffix_index))
      [] stage = "slug_guess" ->
            variant = "match" /\ slug_hits(norm_name(row_nm(row)), chan_map) # {}
      [] stage = "unmatched" -> TRUE

\* C1: best_match tries its strategies in the order alias, id_exact, id_compact,
\* suffix swap, name_unique, name_jaccard, slug_guess, unmatched and returns the
\* verdict of the first that applies: the strategy of the verdict applies and none
\* before it does. A row without alias whose declared id is a catalog key and whose
\* name reaches Jaccard 0.60 gets (id_exact, declared id, 1.00).
C1_FirstApplicableWins ==
    Matched =>
        \A i \in DOMAIN rows :
            /\ StrategyApplies(StrategyOrder[RankOf(rows[i].match_method)], rows[i])
            /\ \A j \in 1..(RankOf(rows[i].match_method) - 1) :
                   ~StrategyApplies(StrategyOrder[j], rows[i])
            /\ ( /\ ~alias_applies(rows[i])
                 /\ id_exact_applies(row_tid(rows[i]), chan_map)
                 /\ StrategyApplies("name_jaccard", rows[i]) )
               => RowVerdict(rows[i]) = Verdict("id_exact", row_tid(rows[i]), 1000)

\* C1, reached: a row matched by its declared id although its name reaches Jaccard 0.60 too
C1_IdExactOverJaccard ==
    /\ Matched
    /\ \E i \in DOMAIN rows :
        /\ rows[i].match_method = "id_exact"
        /\ ~alias_applies(rows[i])
        /\ StrategyApplies("name_jaccard", rows[i])

\* C2 (amended): every verdict of a method other than alias whose matched id is
\* non-empty names a key of chan_map.
C2_NonAliasIdInCatalog ==
    Matched =>
        \A i \in DOMAIN rows :
            (rows[i].match_method # "alias" /\ rows[i].matched_id # <<>>)
                => rows[i].matched_id \in DictKeys(chan_map)

\* C2 (as stated): every verdict whose matched id is non-empty names a key of
\* chan_map, the verdicts of alias included.
C2_EveryIdInCatalog ==
    Matched =>
        \A i \in DOMAIN rows :
            rows[i].matched_id # <<>> => rows[i].matched_id \in DictKeys(chan_map)

\* C2, reached: a row resolved by the slug guess, to an id of the catalog
C2_SlugGuessInCatalog ==
    /\ Matched
    /\ \E i \in DOMAIN rows :
        /\ rows[i].match_method = "slug_guess"
        /\ rows[i].matched_id \in DictKeys(chan_map)

\* the records of the alias file written under the key of playlist entry ch
AliasRecsFor(ch) ==
    {k \in DOMAIN alias_csv.recs :
        /\ lower(strip(alias_csv.recs[k].m3u_name)) = lower(ch.name)
        /\ lower(strip(alias_csv.recs[k].tvg_id_current)) = lower(ch.tvg_id)}

\* C3: a row for which the alias file holds an override under the key (lowercased
\* display name, lowercased declared id) gets the verdict (alias, the target of the
\* override, 1.0), whatever the catalog holds.
C3_AliasSupremacy ==
    Matched =>
        \A i \in DOMAIN rows :
            AliasRecsFor(m3u[i]) # {}
                => RowVerdict(rows[i]) =
                       Verdict("alias",
                               strip(alias_csv.recs[SetMax(AliasRecsFor(m3u[i]))].tvg_id_target),
                               1000)

\* C3, reached: a row with an override whose target is blank, resolved by another strategy
C3_BlankTargetFallsThrough ==
    /\ Matched
    /\ \E i \in DOMAIN rows :
        /\ AliasRecsFor(m3u[i]) # {}
        /\ rows[i].match_method \notin {"alias", "unmatched"}

RECURSIVE AllChannels(_, _)
\* the channel elements of the documents, in the order read
AllChannels(docs, d) ==
    IF d > Len(docs) THEN <<>> ELSE docs[d].channels \o AllChannels(docs, d + 1)

\* the ids the input documents define
InputChannelIds ==
    {strip(AllChannels(epg_docs, 1)[i].id) : i \in DOMAIN AllChannels(epg_docs, 1)} \ {<<>>}

\* the ids of the rows accepted at the threshold
AcceptedIds == {rows[i].matched_id : i \in {j \in DOMAIN rows : rows[j].confidence >= THRESH}}

ElementsOut(kind) == {k \in DOMAIN epg_out : epg_out[k].kind = kind}

\* C4: the merged EPG of match_epg_m3u.py holds exactly one channel element for
\* each accepted id that an input document defines (surrounding whitespace in the
\* document or several definitions notwithstanding) and no other channel element,
\* and every programme element of the inputs whose channel is accepted and no other.
C4_MergedEpgClosure ==
    (pc = "done" /\ variant = "match") =>
        /\ \A id \in AcceptedIds \cap InputChannelIds :
               Cardinality({k \in ElementsOut("channel") : strip(epg_out[k].id) = id}) = 1
        /\ \A k \in ElementsOut("channel") : strip(epg_out[k].id) \in AcceptedIds
        /\ {<<epg_out[k].doc, epg_out[k].pos>> : k \in ElementsOut("programme")}
               = {dp \in {<<d, i>> : d \in DOMAIN epg_docs, i \in 1..MaxProgs + 1} :
                    /\ dp[2] \in DOMAIN epg_docs[dp[1]].programmes
                    /\ epg_docs[dp[1]].programmes[dp[2]].channel \in AcceptedIds}
        /\ \A k, l \in ElementsOut("programme") :
               (epg_out[k].doc = epg_out[l].doc /\ epg_out[k].pos = epg_out[l].pos) => k = l

\* C4, reached: an accepted id whose only definition carries whitespace, and no channel written
C4_WhitespaceIdDropped ==
    /\ pc = "done"
    /\ variant = "match"
    /\ ID_b_uk \in AcceptedIds \cap InputChannelIds
    /\ ElementsOut("channel") = {}

RECURSIVE tvg_id_attrs_from(_, _)
tvg_id_attrs_from(ext, i) ==
    IF i > Len(ext) THEN <<>>
    ELSE LET closers == {q \in (i + Len(TVG_ID_EQ))..Len(ext) : ext[q] = QUOTE}
         IN IF MatchAt(ext, i, TVG_ID_EQ) /\ closers # {}
            THEN <<SubSeq(ext, i + Len(TVG_ID_EQ), SetMin(closers) - 1)>>
                     \o tvg_id_attrs_from(ext, SetMin(closers) + 1)
            ELSE tvg_id_attrs_from(ext, i + 1)

\* the values of the tvg-id attributes of a metadata line, in order
TvgIdAttrs(ext) == tvg_id_attrs_from(ext, 1)

\* the metadata line written for entry i
LineOut(i) == lines[2 * i]

\* C5: for a row whose confidence is below the threshold the tvg-id attribute of
\* the line written is the one of the input line, neither changed nor removed.
C5_BelowThresholdIdKept ==
    Rewritten =>
        \A i \in DOMAIN rows :
            rows[i].confidence < THRESH
                => TvgIdAttrs(LineOut(i)) = TvgIdAttrs(m3u[i].extinf)

\* C5, reached: a row below the threshold whose line went from tvg-id x.uk to tvg-id q.uk
C5_DeclaredIdOverwritten ==
    /\ Rewritten
    /\ \E i \in DOMAIN rows :
        /\ rows[i].confidence < THRESH
        /\ TvgIdAttrs(m3u[i].extinf) = <<ID_x_uk>>
        /\ TvgIdAttrs(LineOut(i)) = <<ID_q_uk>>

\* C6: for a row with a non-empty matched id and confidence at or above the
\* threshold the line written carries a tvg-id attribute equal to the matched id,
\* whether the input line had a tvg-id, other attributes only, or none.
C6_AcceptedIdWritten ==
    Rewritten =>
        \A i \in DOMAIN rows :
            (rows[i].matched_id # <<>> /\ rows[i].confidence >= THRESH)
                => /\ TvgIdAttrs(LineOut(i)) # <<>>
                   /\ \A k \in DOMAIN TvgIdAttrs(LineOut(i)) :
                          TvgIdAttrs(LineOut(i))[k] = rows[i].matched_id

\* C6, reached: an accepted row whose line had no attribute and is written without tvg-id
C6_NoAttributeLineUnchanged ==
    /\ Rewritten
    /\ \E i \in DOMAIN rows :
        /\ rows[i].matched_id # <<>>
        /\ rows[i].confidence >= THRESH
        /\ findall_attrs(m3u[i].extinf, 1) = <<>>
        /\ TvgIdAttrs(LineOut(i)) = <<>>

\* C7: norm_name is idempotent: applied to its own result it returns that result.
C7_NormNameIdempotent == Len(norm.out) = 2 => norm.out[2] = norm.out[1]

\* C7, reached: "hd_x" normalises to "hd x", and "hd x" to "x"
C7_UnderscoreJoinedStopword ==
    /\ norm.x = <<"h", "d", "_", "x">>
    /\ norm.out = << <<"h", "d", " ", "x">>, <<"x">> >>

\* the display names of the first definition of cid among the elements chs
FirstNames(chs, cid) ==
    SeqSet(display_names(chs[SetMin({i \in DOMAIN chs : strip(chs[i].id) = cid})], cid))

\* C8: the catalog holds one record per channel id, and for an id defined more
\* than once the display names registered, in chan_map and in name_index, are
\* those of its first definition.
C8_FirstDefinitionWins ==
    Loaded =>
        /\ DictKeys(chan_map) = InputChannelIds
        /\ \A cid \in InputChannelIds :
            /\ Cardinality({i \in DOMAIN chan_map : chan_map[i].k = cid}) = 1
            /\ DictGet(chan_map, cid) = FirstNames(AllChannels(epg_docs, 1), cid)
            /\ \A dn \in FirstNames(AllChannels(epg_docs, 1), cid) :
                   norm_name_of(variant, dn) \in DOMAIN name_index
        /\ \A key \in DOMAIN name_index :
               name_index[key] =
                   {cid \in InputChannelIds :
                       \E dn \in FirstNames(AllChannels(epg_docs, 1), cid) :
                           norm_name_of(variant, dn) = key}

\* C8, reached: b.uk defined as "B" and then as "C D": chan_map holds the second definition
C8_LaterDefinitionKept ==
    /\ Loaded
    /\ ID_b_uk \in InputChannelIds
    /\ FirstNames(AllChannels(epg_docs, 1), ID_b_uk) = {N_B}
    /\ DictGet(chan_map, ID_b_uk) = {N_C_D}

Methods ==
    {"alias", "id_exact", "id_compact", "id_gb_to_uk", "id_uk_to_gb", "name_unique",
     "name_jaccard", "slug_guess", "unmatched"}

\* C9: best_match returns a verdict for every row and catalog; when no strategy
\* applies it is (unmatched, empty id, 0.0); and the matched id is empty if and
\* only if the method is unmatched.
C9_AlwaysAVerdict ==
    /\ pc = "match" =>
           \A i \in DOMAIN m3u :
               row_verdicts(variant, make_row(variant, m3u[i], aliases),
                            chan_map, name_index, id_suffix_index) # {}
    /\ Matched =>
           /\ Len(rows) = Len(m3u)
           /\ \A i \in DOMAIN rows :
               /\ rows[i].match_method \in Methods
               /\ (\A j \in 1..(Len(StrategyOrder) - 1) :
                       ~StrategyApplies(StrategyOrder[j], rows[i]))
                      => RowVerdict(rows[i]) = Verdict("unmatched", <<>>, 0)
               /\ (rows[i].matched_id = <<>>) <=> (rows[i].match_method = "unmatched")
               /\ rows[i].match_method = "unmatched" => rows[i].confidence = 0

\* C9, reached: a row without id, name or alias against an empty catalog: unmatched
C9_NothingToMatch ==
    /\ Matched
    /\ chan_map = <<>>
    /\ \E i \in DOMAIN rows :
        /\ rows[i].name = <<>>
        /\ rows[i].tvg_id = <<>>
        /\ rows[i].alias_target = None
        /\ RowVerdict(rows[i]) = Verdict("unmatched", <<>>, 0)

\* X of a declared id X.gb or X.uk
Stem(tid) == SubSeq(tid, 1, Len(tid) - 3)

\* no key of chan_map has the compacted form of tid
NoCompactTwin(tid) ==
    \A k \in DictKeys(chan_map) : compact(lower(k)) # compact(lower(tid))

\* a row without alias declaring X \o from, with X \o to in the catalog and neither
\* X \o from nor an id of its compacted form
SwapCase(row, from, to) ==
    /\ ~alias_applies(row)
    /\ Len(row_tid(row)) >= 3
    /\ endswith(row_tid(row), from)
    /\ Stem(row_tid(row)) \o to \in DictKeys(chan_map)
    /\ row_tid(row) \notin DictKeys(chan_map)
    /\ NoCompactTwin(row_tid(row))

EntryNkey(i) ==
    norm_name_of(variant, strip(IF m3u[i].tvg_name # <<>> THEN m3u[i].tvg_name ELSE m3u[i].name))

\* neither the alias nor a strategy on the declared id applies to the row
NoAliasNoIdStrategy(row) ==
    \A j \in 1..4 : ~StrategyApplies(StrategyOrder[j], row)

\* C11: when no alias and no id-based strategy applies, the verdict is name_unique
\* if and only if the normalised name (tvg_name if non-empty, else name) is a key of
\* name_index with exactly one id, and then it is (name_unique, that id, 0.92); a
\* name with two or more ids never yields name_unique.
C11_NameUniqueIffOneId ==
    Matched =>
        \A i \in DOMAIN rows :
            /\ NoAliasNoIdStrategy(rows[i]) =>
                   (rows[i].match_method = "name_unique"
                        <=> /\ EntryNkey(i) \in DOMAIN name_index
                            /\ Cardinality(name_index[EntryNkey(i)]) = 1)
            /\ rows[i].match_method = "name_unique" =>
                   /\ EntryNkey(i) \in DOMAIN name_index
                   /\ name_index[EntryNkey(i)] = {rows[i].matched_id}
                   /\ rows[i].confidence = 920

\* C11, reached: an entry without id named "B HD" against the catalog {b.uk: {B}}
C11_NameWithHdResolved ==
    /\ Matched
    /\ DictKeys(chan_map) = {ID_b_uk}
    /\ DictGet(chan_map, ID_b_uk) = {N_B}
    /\ \E i \in DOMAIN rows :
        /\ m3u[i].tvg_id = <<>>
        /\ m3u[i].name = N_B_HD
        /\ RowVerdict(rows[i]) = Verdict("name_unique", ID_b_uk, 920)

\* the tokens of a name: the words of its normal form
NameWords(nm) == split_set(norm_name_of(variant, nm))

\* |A \cap B| * den >= num * |A \cup B|, for non-empty A and B
OverlapAtLeast(A, B, num, den) ==
    /\ A # {}
    /\ B # {}
    /\ Cardinality(A \cap B) * den >= num * Cardinality(A \cup B)

\* the candidate ids the row is scored against: those script "match" takes from
\* the suffix index under the row's hint, every id without hint and in script "sd"
ScoredIds(row) ==
    IF variant = "match" THEN jaccard_cands(row_suf(row), chan_map, id_suffix_index)
    ELSE DictKeys(chan_map)

\* some display name of some candidate id overlaps the row's name at num/den or more
SomeOverlapAtLeast(row, num, den) ==
    \E cid \in ScoredIds(row) : \E dn \in DictGet(chan_map, cid) :
        OverlapAtLeast(NameWords(row_nm(row)), NameWords(dn), num, den)

\* none of the strategies before name_jaccard applies to the row
NothingBeforeJaccard(row) == \A j \in 1..5 : ~StrategyApplies(StrategyOrder[j], row)

\* C12: in name_jaccard the best score over the candidate ids is accepted exactly
\* when it is >= 0.60 (3 shared tokens of 5 are accepted); below 0.60 the row is
\* never name_jaccard and falls through to slug_guess or unmatched.
C12_JaccardBoundary ==
    Matched =>
        \A i \in DOMAIN rows :
            /\ NothingBeforeJaccard(rows[i]) =>
                   /\ rows[i].match_method = "name_jaccard" <=> SomeOverlapAtLeast(rows[i], 3, 5)
                   /\ ~SomeOverlapAtLeast(rows[i], 3, 5) =>
                          rows[i].match_method \in {"slug_guess", "unmatched"}
            /\ rows[i].match_method = "name_jaccard" => SomeOverlapAtLeast(rows[i], 3, 5)

\* C12, reached: a row accepted at exactly 3 shared tokens of 5
C12_ThreeOfFiveAccepted ==
    /\ Matched
    /\ \E i \in DOMAIN rows :
        /\ rows[i].match_method = "name_jaccard"
        /\ ~SomeOverlapAtLeast(rows[i], 61, 100)
        /\ NameWords(row_nm(rows[i])) = {<<"c">>, <<"d">>, <<"e">>}

\* the text the keywords are looked up in: id, group and name of the row
RowBlob(row) ==
    lower(<<" ">> \o row.tvg_id \o <<" ">> \o row.group \o <<" ">>
          \o Or(row.tvg_name, row.name) \o <<" ">>)

\* the country the keyword table gives for the row, None when no keyword is present
TableHint(row) ==
    IF \E k \in UkWords : contains(RowBlob(row), k) THEN S_uk
    ELSE IF \E k \in UsWords : contains(RowBlob(row), k) THEN S_us
    ELSE IF \E k \in CaWords : contains(RowBlob(row), k) THEN S_ca
    ELSE IF \E k \in DeWords : contains(RowBlob(row), k) THEN S_de
    ELSE None

\* the hint of the alias, else the hint of the keyword table, else none
TableOrAliasHint(row) == Or(row.suffix, TableHint(row))

\* the same, with the two-letter suffix of the declared id where the table is silent
HintWithIdSuffix(row) == Or(TableOrAliasHint(row), id_suffix(lower(row.tvg_id)))

\* the catalog ids a hint leaves as candidates: all of them without a hint
HintedIds(hint) ==
    IF Truthy(hint) THEN {cid \in DictKeys(chan_map) : id_suffix(cid) = hint}
    ELSE DictKeys(chan_map)

\* the row is name_jaccard exactly when some id among ids overlaps it at 0.60 or
\* more, and then its matched id is one of ids
DecidedOver(row, ids) ==
    /\ NothingBeforeJaccard(row) =>
           (row.match_method = "name_jaccard" <=>
                \E cid \in ids : \E dn \in DictGet(chan_map, cid) :
                    OverlapAtLeast(NameWords(row_nm(row)), NameWords(dn), 3, 5))
    /\ row.match_method = "name_jaccard" => row.matched_id \in ids

\* C13 as stated: in match_epg_m3u.py the candidates of name_jaccard are the ids
\* whose suffix equals the hint of the alias or of the keyword table, and every
\* catalog id when there is neither.
C13_CandidatesByKeywordHint ==
    (Matched /\ variant = "match") =>
        \A i \in DOMAIN rows : DecidedOver(rows[i], HintedIds(TableOrAliasHint(rows[i])))

\* C13, amended: the candidates of name_jaccard are the ids whose suffix equals the
\* hint of the alias, else of the keyword table, else the two-letter suffix of the
\* row's declared id; every catalog id is a candidate only when all three are absent.
C13_CandidatesByHint ==
    (Matched /\ variant = "match") =>
        \A i \in DOMAIN rows : DecidedOver(rows[i], HintedIds(HintWithIdSuffix(rows[i])))

\* C13, reached: a row without alias hint and keyword whose declared id ends in .fr
\* is kept from an id ending in .us that shares 3 tokens of 5 with it
C13_IdSuffixRestricts ==
    /\ Matched
    /\ variant = "match"
    /\ \E i \in DOMAIN rows :
        /\ ~Truthy(TableOrAliasHint(rows[i]))
        /\ Truthy(HintWithIdSuffix(rows[i]))
        /\ NothingBeforeJaccard(rows[i])
        /\ rows[i].match_method # "name_jaccard"
        /\ \E cid \in DictKeys(chan_map) : \E dn \in DictGet(chan_map, cid) :
               OverlapAtLeast(NameWords(row_nm(rows[i])), NameWords(dn), 3, 5)

\* the catalogs with the content of chan_map and another order of its channels
Reordered(cm) == {[i \in DOMAIN cm |-> cm[p[i]]] : p \in Permutations(DOMAIN cm)}

\* the verdicts best_match can return for entry i against the catalog in order cm
VerdictsOf(i, cm) ==
    row_verdicts(variant, make_row(variant, m3u[i], aliases), cm, name_index, id_suffix_index)

\* C14: the verdict of best_match depends on the row, the alias table and the
\* content of the catalog only: for every row one verdict is possible, the same
\* under every order of the channel definitions and of set iteration.
C14_VerdictOrderFree ==
    pc = "match" =>
        \A i \in DOMAIN m3u :
            /\ Cardinality(VerdictsOf(i, chan_map)) = 1
            /\ \A cm \in Reordered(chan_map) : VerdictsOf(i, cm) = VerdictsOf(i, chan_map)

\* C14, reached: two ids tie on the best Jaccard score of a row and either can be
\* the matched id, with a confidence that reaches the threshold of the rewrite
C14_TieOnBestScore ==
    /\ pc = "match"
    /\ variant = "match"
    /\ \E i \in DOMAIN m3u :
        \E v1 \in VerdictsOf(i, chan_map) : \E v2 \in VerdictsOf(i, chan_map) :
            /\ v1.method = "name_jaccard"
            /\ v2.method = "name_jaccard"
            /\ v1.matched_id # v2.matched_id
            /\ v1.confidence >= MATCH_THRESH

\* C14, reached in sd_daily_match_epg_m3u.py: the matched id changes with the
\* order in which the document defines its channels
C14_SdFirstDefinedWins ==
    /\ pc = "match"
    /\ variant = "sd"
    /\ \E i \in DOMAIN m3u : \E cm \in Reordered(chan_map) :
           VerdictsOf(i, cm) # VerdictsOf(i, chan_map)

\* the values the metadata line ext carries for the attribute key: the texts
\* between  key="  and the next quote
AttrValues(ext, key) ==
    {SubSeq(ext, i + Len(key) + 3,
            SetMin({q \in (i + Len(key) + 3)..Len(ext) : ext[q] = QUOTE}) - 1) :
        i \in {j \in DOMAIN ext :
                  /\ MatchAt(ext, j, <<" ">> \o key \o <<"=", QUOTE>>)
                  /\ \E q \in (j + Len(key) + 3)..Len(ext) : ext[q] = QUOTE}}

\* C15: for a metadata line carrying tvg-id="I", tvg-name="N" and group-title="G"
\* parse_m3u yields the declared id I, the alternate name N and the group G.
C15_HyphenAttrsRead ==
    pc # "parse_m3u" =>
        \A i \in DOMAIN m3u :
            \A I \in AttrValues(m3u[i].extinf, K_tvg_id_h) :
            \A N \in AttrValues(m3u[i].extinf, K_tvg_name_h) :
            \A G \in AttrValues(m3u[i].extinf, K_group_title_h) :
                /\ m3u[i].tvg_id = I
                /\ m3u[i].tvg_name = N
                /\ m3u[i].group = G

\* C15, reached: a line carrying the three attributes with non-empty values is
\* parsed to a record without declared id, alternate name and group
C15_HyphenAttrsLost ==
    /\ pc # "parse_m3u"
    /\ \E i \in DOMAIN m3u :
        /\ \E I \in AttrValues(m3u[i].extinf, K_tvg_id_h) : I # <<>>
        /\ \E N \in AttrValues(m3u[i].extinf, K_tvg_name_h) : N # <<>>
        /\ \E G \in AttrValues(m3u[i].extinf, K_group_title_h) : G # <<>>
        /\ m3u[i].tvg_id = <<>>
        /\ m3u[i].tvg_name = <<>>
        /\ m3u[i].group = <<>>

\* a line with the value of every tvg-id attribute blanked
MaskId(line) == sub_tvg_id_from(line, 1, <<>>)

\* C16: the rewritten playlist differs from the input playlist only in the value of
\* the identifier attribute: the same lines in the same order, metadata lines equal
\* up to that value, property lines and stream addresses unchanged.
C16_OnlyIdValueChanged ==
    Rewritten =>
        /\ Len(lines) = Len(m3u_file)
        /\ \A k \in DOMAIN lines \cap DOMAIN m3u_file : MaskId(lines[k]) = MaskId(m3u_file[k])

\* C16, reached: the input entry has a #KODIPROP line and the output has none; the
\* metadata line and the address of the entry are written unchanged
C16_PropertyLineDropped ==
    /\ Rewritten
    /\ \E k \in DOMAIN m3u_file : m3u_file[k] = KODIPROP
    /\ \A k \in DOMAIN lines : lines[k] # KODIPROP
    /\ Len(lines) = Len(m3u_file) - 1
    /\ lines[2] = m3u_file[2]
    /\ lines[3] = m3u_file[4]

(***************************************************************************)
(* Properties of the favourites writer.                                    *)
(***************************************************************************)
\* the pruned playlist is written
Pruned == prune_pc = "done"

\* the positions of the metadata lines of the playlist written
EntryStarts == {k \in DOMAIN pruned.fo : startswith(pruned.fo[k], EXTINF)}

\* the last line of the entry that starts at k: its stream address line
AddressLine(k) ==
    pruned.fo[IF \E j \in EntryStarts : j > k
              THEN SetMin({j \in EntryStarts : j > k}) - 1
              ELSE Len(pruned.fo)]

\* the inclusion flag of a row is one of 1, true, yes, y, in any case
Flagged(r) ==
    lower(IF r.Favourite # <<>> THEN r.Favourite ELSE r.Include)
        \in {<<"1">>, <<"t","r","u","e">>, <<"y","e","s">>, <<"y">>}

\* the Url cell holds a line that is neither blank nor a property line
HasAddress(r) ==
    \E i \in DOMAIN splitlines(r.Url) :
        /\ strip(splitlines(r.Url)[i]) # <<>>
        /\ ~startswith(strip(splitlines(r.Url)[i]), KODIPROP_PREFIX)

\* C17: every entry write_pruned_m3u_from_favs emits has a non-empty stream address
\* line, also when the row is matched to a master entry with a blank address line.
C17_AddressNonEmpty ==
    Pruned => \A k \in EntryStarts : AddressLine(k) # <<>>

\* C17, reached: a row with an address of its own, matched by declared id to a
\* master entry whose address line is blank, is written with an empty address line
C17_BlankMasterAddress ==
    /\ Pruned
    /\ \E k \in EntryStarts : AddressLine(k) = <<>>
    /\ \E i \in DOMAIN favs :
        /\ Flagged(favs[i])
        /\ HasAddress(favs[i])
        /\ norm_key(favs[i].TvgId) \in DOMAIN master_lookup.by_tvg
        /\ master_lookup.by_tvg[norm_key(favs[i].TvgId)].url = <<>>

\* C18: a favourite row whose Url holds no stream address beside its property lines
\* is not emitted and is counted in skipped_no_url, and no stream address line
\* emitted is a property line.
C18_NoAddressSkipped ==
    Pruned =>
        /\ pruned.sk_nourl =
               Cardinality({i \in DOMAIN favs : Flagged(favs[i]) /\ ~HasAddress(favs[i])})
        /\ pruned.written =
               Cardinality({i \in DOMAIN favs : Flagged(favs[i]) /\ HasAddress(favs[i])})
        /\ \A k \in EntryStarts : ~startswith(AddressLine(k), KODIPROP_PREFIX)

\* C18, reached: a favourite row whose Url is one property line is emitted, with
\* the property line as its address, and nothing is counted in skipped_no_url
C18_PropertyLineAsAddress ==
    /\ Pruned
    /\ pruned.sk_nourl = 0
    /\ \E i \in DOMAIN favs : Flagged(favs[i]) /\ ~HasAddress(favs[i]) /\ favs[i].Url # <<>>
    /\ \E k \in EntryStarts : startswith(AddressLine(k), KODIPROP_PREFIX)

\* C19: an entry is emitted only for rows whose inclusion flag is 1, true, yes or y
\* in any case; the other rows are counted in skipped_not_favourite, and
\* written + skipped_not_favourite + skipped_no_url is the number of rows.
C19_FlaggedRowsOnly ==
    Pruned =>
        /\ pruned.sk_notfav = Cardinality({i \in DOMAIN favs : ~Flagged(favs[i])})
        /\ pruned.written + pruned.sk_nourl = Cardinality({i \in DOMAIN favs : Flagged(favs[i])})
        /\ pruned.written + pruned.sk_notfav + pruned.sk_nourl = Len(favs)
        /\ Cardinality(EntryStarts) = pruned.written

\* C19, reached: of three rows one is written, one has a flag that is filled in
\* but not set and one has no address
C19_OneOfEach ==
    /\ Pruned
    /\ pruned.written = 1
    /\ pruned.sk_notfav = 1
    /\ pruned.sk_nourl = 1
    /\ \E i \in DOMAIN favs : favs[i].Favourite # <<>> /\ ~Flagged(favs[i])

\* the entry _find_master_entry returns for a row (<<>> for None)
FoundFor(r) ==
    find_master_entry(master_lookup, get(r, <<"ChannelName", "Name", "Channel">>),
                      get(r, <<"TvgId", "tvg-id">>),
                      split_url_and_props(get(r, <<"Url", "URL", "StreamUrl">>)).url,
                      preferred_source_kinds(r))

\* the keys of a row in the order stated: stream URL, declared id, declared id
\* without its @suffix, declared id in lower case, display name
KeysOf(r) ==
    << <<"by_url", strip(split_url_and_props(r.Url).url)>>,
       <<"by_tvg", lower(strip(r.TvgId))>>,
       <<"by_tvg", IF \E i \in DOMAIN r.TvgId : r.TvgId[i] = "@"
                   THEN before_at(lower(strip(r.TvgId))) ELSE <<>> >>,
       <<"by_tvg", lower(strip(r.TvgId))>>,
       <<"by_name", lower(strip(r.ChannelName))>> >>

\* the entry under key j of the row belongs to a source the row admits
Admitted(r, j) ==
    /\ KeysOf(r)[j][2] # <<>>
    /\ KeysOf(r)[j][2] \in DOMAIN master_lookup[KeysOf(r)[j][1]]
    /\ \/ preferred_source_kinds(r) = {}
       \/ classify_source(master_lookup[KeysOf(r)[j][1]][KeysOf(r)[j][2]].source,
                          master_lookup[KeysOf(r)[j][1]][KeysOf(r)[j][2]].origin_path)
              \in preferred_source_kinds(r)

\* C20: _find_master_entry returns the entry of the first of the keys stream URL,
\* declared id, declared id without @suffix, lower-cased declared id, display name
\* that hits an entry of a source the row admits: every source when the row names
\* no preference, the preferred source otherwise; without such a hit it returns None.
C20_FirstAdmittedKeyWins ==
    prune_pc \in {"write", "done"} =>
        \A i \in DOMAIN favs :
            /\ (\A j \in 1..5 : ~Admitted(favs[i], j)) => FoundFor(favs[i]) = <<>>
            /\ \A j \in 1..5 :
                   (Admitted(favs[i], j) /\ \A h \in 1..(j - 1) : ~Admitted(favs[i], h))
                       => FoundFor(favs[i]) =
                              <<master_lookup[KeysOf(favs[i])[j][1]][KeysOf(favs[i])[j][2]]>>
            /\ (preferred_source_kinds(favs[i]) # {} /\ FoundFor(favs[i]) # <<>>)
                   => classify_source(FoundFor(favs[i])[1].source,
                                      FoundFor(favs[i])[1].origin_path)
                          \in preferred_source_kinds(favs[i])

\* C20, reached: a row preferring iptv-org whose declared id, without @suffix, hits
\* an entry of the Free-TV master gets the iptv-org entry found by its name
C20_PassedOverForNextKey ==
    /\ prune_pc \in {"write", "done"}
    /\ \E i \in DOMAIN favs :
        /\ preferred_source_kinds(favs[i]) = {"iptv_org"}
        /\ KeysOf(favs[i])[3][2] \in DOMAIN master_lookup.by_tvg
        /\ ~Admitted(favs[i], 3)
        /\ Admitted(favs[i], 5)
        /\ FoundFor(favs[i]) = <<master_lookup.by_name[KeysOf(favs[i])[5][2]]>>

\* the master lookup has just been built
MasterParsed == prune_pc = "sync"

\* line i of master playlist n closes an entry: it is an address line, and the
\* metadata line it belongs to is the last one before it with only comment and
\* empty lines in between
ClosesEntry(n, i) ==
    /\ master_paths[n].exists
    /\ master_paths[n].lines[i] # <<>>
    /\ ~startswith(master_paths[n].lines[i], <<"#">>)
    /\ \E j \in 1..(i - 1) :
        /\ startswith(master_paths[n].lines[j], EXTINF)
        /\ \A k \in (j + 1)..(i - 1) :
               master_paths[n].lines[k] = <<>>
               \/ (startswith(master_paths[n].lines[k], <<"#">>)
                   /\ ~startswith(master_paths[n].lines[k], EXTINF))

\* the entries of the master playlists as <<source index, line of the address>>
EntrySites ==
    UNION {{<<n, i>> : i \in {k \in DOMAIN master_paths[n].lines : ClosesEntry(n, k)}} :
              n \in DOMAIN master_paths}

\* the metadata line of the entry closed at line i of playlist n
ExtOf(n, i) ==
    master_paths[n].lines[SetMax({j \in 1..(i - 1) :
                                     startswith(master_paths[n].lines[j], EXTINF)})]

\* the text an entry is indexed under in one of the three lookups
SiteKey(which, n, i) ==
    CASE which = "by_url" -> strip(master_paths[n].lines[i])
      [] which = "by_tvg" ->
            lower(strip(attr_lookup(master_attrs(ExtOf(n, i)),
                                    <<K_tvg_id_h, K_tvg_id_u, K_tvgid>>)))
      [] which = "by_name" -> lower(name_of(ExtOf(n, i)))

\* site a comes before site b in priority order: lower source index, then earlier line
Before(a, b) == a[1] < b[1] \/ (a[1] = b[1] /\ a[2] < b[2])

\* C21: under every key of the three master lookups the entry kept is the one seen
\* first in priority order (lowest source index, then earliest in the file); a
\* later entry with the same key never replaces it.
C21_FirstSeenWins ==
    MasterParsed =>
        \A which \in {"by_url", "by_tvg", "by_name"} :
            /\ DOMAIN master_lookup[which] =
                   {SiteKey(which, a[1], a[2]) : a \in EntrySites} \ {<<>>}
            /\ \A a \in EntrySites :
                   (/\ SiteKey(which, a[1], a[2]) # <<>>
                    /\ \A b \in EntrySites :
                           SiteKey(which, b[1], b[2]) = SiteKey(which, a[1], a[2])
                               => (b = a \/ Before(a, b)))
                       => /\ master_lookup[which][SiteKey(which, a[1], a[2])].priority = a[1] - 1
                          /\ master_lookup[which][SiteKey(which, a[1], a[2])].url
                                 = strip(master_paths[a[1]].lines[a[2]])
                          /\ master_lookup[which][SiteKey(which, a[1], a[2])].name
                                 = name_of(ExtOf(a[1], a[2]))

\* C21, reached: two master playlists define the same stream URL and the lookup
\* holds the entry of the first
C21_SameUrlInTwoSources ==
    /\ MasterParsed
    /\ \E a \in EntrySites : \E b \in EntrySites :
        /\ a[1] < b[1]
        /\ SiteKey("by_url", a[1], a[2]) = SiteKey("by_url", b[1], b[2])
        /\ name_of(ExtOf(a[1], a[2])) # name_of(ExtOf(b[1], b[2]))
        /\ master_lookup.by_url[SiteKey("by_url", a[1], a[2])].name = name_of(ExtOf(a[1], a[2]))

\* row i of favs is written: it is flagged and its Url cell is not blank
Emitted(i) == Flagged(favs[i]) /\ strip(favs[i].Url) # <<>>

\* the metadata line written for row i
ExtOfRow(i) ==
    pruned.fo[CHOOSE k \in EntryStarts :
                 Cardinality({j \in EntryStarts : j <= k})
                     = Cardinality({j \in 1..i : Emitted(j)})]

\* the value taken for a field: the row's when it is not blank, else the master's
Taken(own, master) == IF strip(own) # <<>> THEN strip(own) ELSE master

\* what a master entry carries for the declared id, country, group and logo
MasterId(e) == e.tvg_id

MasterCountry(e) == Or(Get(e.attrs, K_TVG_COUNTRY, <<>>), Get(e.attrs, K_COUNTRY, <<>>))

MasterGroup(e) ==
    Or(Or(Get(e.attrs, K_group_title_h, <<>>), Get(e.attrs, K_GROUP, <<>>)),
       Get(e.attrs, K_CATEGORY, <<>>))

MasterLogo(e) == Or(Get(e.attrs, K_TVG_LOGO, <<>>), Get(e.attrs, <<"l","o","g","o">>, <<>>))

\* the metadata line ext carries value for the attribute key, up to letter case,
\* or no such attribute when the value is empty
Carries(ext, key, value) ==
    {lower(v) : v \in AttrValues(ext, key)} = {lower(value)} \ {<<>>}

IdentityKey(name, id, url) ==
    lower(IF strip(name) # <<>> THEN strip(name)
          ELSE IF strip(id) # <<>> THEN strip(id) ELSE strip(url))

\* the identity keys of the rows fs
RowKeys(fs) ==
    {IdentityKey(Cell(fs[i], "ChannelName"), Cell(fs[i], "TvgId"), Cell(fs[i], "Url")) :
        i \in DOMAIN fs}

\* the entries the master lookup holds
LookupEntries ==
    UNION {{master_lookup[which][k] : k \in DOMAIN master_lookup[which]} :
              which \in {"by_url", "by_tvg", "by_name"}}

\* the master entries a row of the table can have been appended for
EntriesOfRow(row) ==
    {e \in LookupEntries :
        /\ Cell(row, "Url") = join_lines(e.props \o <<e.url>>)
        /\ Cell(row, "ChannelName") = Or(e.name, Get(e.attrs, K_tvg_name_h, <<>>))
        /\ Cell(row, "TvgId") = e.tvg_id}

\* the rows before are kept in place, with every non-blank cell unchanged, but for
\* CountrySource, which the country backfill of the first loop sets with Country
RowsKept(before, after) ==
    /\ Len(after) >= Len(before)
    /\ \A i \in DOMAIN before : \A col \in DOMAIN before[i] :
           (before[i][col] # <<>> /\ col # "CountrySource")
               => (col \in DOMAIN after[i] /\ after[i][col] = before[i][col])

\* row k of after was appended for a master entry whose identity key is the key
\* of no row of before and of no row appended before it
AppendedForNewKey(before, after, k) ==
    \E e \in EntriesOfRow(after[k]) :
        /\ IdentityKey(e.name, e.tvg_id, e.url) \notin RowKeys(before)
        /\ \A h \in (Len(before) + 1)..(k - 1) : \A o \in EntriesOfRow(after[h]) :
               IdentityKey(o.name, o.tvg_id, o.url) # IdentityKey(e.name, e.tvg_id, e.url)

StreamUrl(row) == split_url_and_props(Cell(row, "Url")).url

\* the master entries at the stream URL of the row that carry group-title="Germany"
\* and no country attribute
GermanyEntriesFor(row) ==
    {e \in LookupEntries :
        /\ e.url = StreamUrl(row)
        /\ Get(e.attrs, K_group_title_h, <<>>) = GERMANY
        /\ MasterCountry(e) = <<>>}

\* row i has a blank country and a blank group, and its stream URL is the one of
\* a master entry carrying group-title="Germany" and no country attribute
BlankWithGermanyEntry(i) ==
    /\ Cell(favs[i], "Country") = <<>>
    /\ Cell(favs[i], "GroupTitle") = <<>>
    /\ GermanyEntriesFor(favs[i]) # {}

\* C24: for a row with blank country and blank group whose stream URL is the one
\* of a master entry carrying group-title="Germany" and no country attribute, the
\* row's country is "Germany" after the merge and the group-title rendered in the
\* pruned playlist is "Germany", for a master entry of any source.
C24_GermanyBackfilled ==
    [][/\ prune_pc = "sync" =>
              \A i \in DOMAIN favs :
                  BlankWithGermanyEntry(i) => Cell(favs'[i], "Country") = GERMANY
       /\ prune_pc = "write" =>
              \A i \in DOMAIN favs :
                  (/\ Emitted(i)
                   /\ Cell(favs[i], "Country") = GERMANY
                   /\ GermanyEntriesFor(favs[i]) # {})
                      => (AttrValues(ExtOfRow(i), K_group_title_h) = {GERMANY})']_vars

\* C24, reached: a row whose stream URL is the one of an iptv-org master entry
\* carrying group-title="Germany" and no country attribute is written with the
\* group-title "Germany" and without a country, and its country is still blank
C24_CountryLeftBlank ==
    /\ Pruned
    /\ \E i \in DOMAIN favs :
        /\ Emitted(i)
        /\ Cell(favs[i], "Country") = <<>>
        /\ Cell(favs[i], "GroupTitle") = GERMANY
        /\ FoundFor(favs[i]) # <<>>
        /\ FoundFor(favs[i])[1] \in GermanyEntriesFor(favs[i])
        /\ classify_source(FoundFor(favs[i])[1].source, FoundFor(favs[i])[1].origin_path)
               = "iptv_org"
        /\ AttrValues(ExtOfRow(i), K_group_title_h) = {GERMANY}
        /\ AttrValues(ExtOfRow(i), K_TVG_COUNTRY) = {}

\* the sync of the second run over the same master playlists is done
SecondSyncDone == runs = MaxRuns /\ prune_pc \in {"write", "done"}

\* C30: synchronising with an unchanged set of master playlists is idempotent
\* across runs: after the first run appended the new master channels and wrote the
\* table, the sync of a second run (read table, reset New flags, sync) appends no
\* row, whatever the shape of the master entries.
C30_SecondSyncAppendsNothing == SecondSyncDone => added = 0

\* C30, reached: the second run appended, for a master entry without display name
\* and declared id that has a property line, a row the first run had appended
C30_AppendedAgain ==
    /\ SecondSyncDone
    /\ added > 0
    /\ \E k \in (Len(favs) - added + 1)..Len(favs) : \E h \in 1..(Len(favs) - added) :
        /\ favs[k].Url = favs[h].Url
        /\ favs[k].ChannelName = favs[h].ChannelName
        /\ favs[k].TvgId = favs[h].TvgId
        /\ favs[k].New = <<"1">> /\ favs[h].New = <<"0">>
        /\ \E e \in EntriesOfRow(favs[k]) :
               e.name = <<>> /\ e.tvg_id = <<>> /\ e.props # <<>>

\* the name index maps key to id cid
NameIndexed(key, cid) == key \in DOMAIN name_index /\ cid \in name_index[key]

\* some display name registered for cid in the id map normalises to key
NamedNow(key, cid) ==
    cid \in DictKeys(chan_map)
    /\ \E d \in DictGet(chan_map, cid) : norm_name_of(variant, d) = key

\* C29: after load_xml_channels the three indices agree: every id in the name
\* index and in the suffix index is a key of the id map, and the name index maps
\* key k to id c exactly when a display name registered for c in the id map
\* normalises to k.
C29_IndicesAgree ==
    Loaded =>
        /\ \A key \in DOMAIN name_index : name_index[key] \subseteq DictKeys(chan_map)
        /\ \A suf \in DOMAIN id_suffix_index :
               id_suffix_index[suf] \subseteq DictKeys(chan_map)
        /\ \A key \in DOMAIN name_index : \A cid \in name_index[key] : NamedNow(key, cid)
        /\ \A cid \in DictKeys(chan_map) : \A d \in DictGet(chan_map, cid) :
               NameIndexed(norm_name_of(variant, d), cid)

\* C29, reached: an id defined by two channel elements with different display
\* names is still indexed under the name of the first, which the id map dropped
C29_StaleNameIndexed ==
    /\ Loaded
    /\ \E key \in DOMAIN name_index : \E cid \in name_index[key] :
        /\ cid \in DictKeys(chan_map)
        /\ ~NamedNow(key, cid)
        /\ \E d \in FirstNames(AllChannels(epg_docs, 1), cid) :
               norm_name_of(variant, d) = key /\ d \notin DictGet(chan_map, cid)

\* the matched ids of the rows whose confidence reaches the threshold
SdAcceptedIds ==
    {rows[i].matched_id : i \in {j \in DOMAIN rows : rows[j].confidence >= THRESH}} \ {<<>>}

\* C28: in sd_daily_match_epg_m3u.py the filtered EPG holds a channel or programme
\* element only if its channel id is the matched id of a row whose confidence is
\* at least the threshold, holds each such channel once, and the ids of the rows
\* below the threshold never enter the keep set.
C28_SdOnlyAcceptedKept ==
    (pc = "done" /\ variant = "sd") =>
        /\ \A k \in DOMAIN epg_out : epg_out[k].id \in SdAcceptedIds
        /\ \A id \in SdAcceptedIds :
               Cardinality({k \in ElementsOut("channel") : epg_out[k].id = id}) <= 1
        /\ matched_ids \subseteq SdAcceptedIds

\* C28, reached: the only row is below the threshold and has no declared id, so
\* nothing was applied, and the channel of its matched id is in the filtered EPG
C28_BelowThresholdKept ==
    /\ pc = "done"
    /\ variant = "sd"
    /\ matched_ids = {}
    /\ SdAcceptedIds = {}
    /\ \E i \in DOMAIN rows :
        /\ rows[i].matched_id # <<>>
        /\ rows[i].confidence < THRESH
        /\ \E k \in ElementsOut("channel") : epg_out[k].id = rows[i].matched_id

\* C28, reached as well: the declared id of a row below the threshold is in the
\* set of applied ids and its programmes are in the filtered EPG
C28_DeclaredIdKept ==
    /\ pc = "done"
    /\ variant = "sd"
    /\ \E i \in DOMAIN rows :
        /\ rows[i].confidence < THRESH
        /\ rows[i].tvg_id # <<>>
        /\ rows[i].tvg_id \in matched_ids
        /\ rows[i].tvg_id \notin SdAcceptedIds
        /\ \E k \in DOMAIN epg_out : epg_out[k].id = rows[i].tvg_id

(***************************************************************************)
(* Catalog builds over files that fail to parse.                           *)
(***************************************************************************)
\* the catalog build has ended, with its catalog or with an exception
CatalogBuilt == cat_pc \in {"consolidate", "done", "aborted"}

\* one of several files does not parse
OneOfSeveralCorrupt == Len(xml_paths) > 1 /\ ~all_parse(xml_paths)

\* the ids of the channel elements of the files that parse
WellFormedIds ==
    UNION {{strip(xml_paths[p].channels[i].id) : i \in DOMAIN xml_paths[p].channels} :
               p \in {q \in DOMAIN xml_paths : xml_paths[q].ok}} \ {<<>>}

\* the ids the catalog of the running script holds
CatalogIds == IF variant = "match" THEN DictKeys(chan_map) ELSE DOMAIN id2rec

\* C25: when one of several EPG documents fails to parse, the catalog build
\* of match_epg_m3u and that of prune_epg_from_country skip it: the run is
\* not aborted and the catalog holds every channel of every document that
\* parses.
C25_CorruptFileSkipped ==
    (CatalogBuilt /\ OneOfSeveralCorrupt) =>
        (cat_pc # "aborted" /\ WellFormedIds \subseteq CatalogIds)

\* match_epg_m3u.py was given a file that parses, with a channel, and one that
\* does not, and the run has ended in load_xml_channels with no catalog
C25_MatchRunAborted ==
    /\ variant = "match"
    /\ cat_pc = "aborted"
    /\ OneOfSeveralCorrupt
    /\ WellFormedIds # {}
    /\ chan_map = <<>>

\* the half of C25 about prune_epg_from_country.py
C25_PruneEpgSkips ==
    (variant = "prune_epg" /\ CatalogBuilt /\ OneOfSeveralCorrupt) =>
        (cat_pc # "aborted" /\ WellFormedIds \subseteq CatalogIds)

\* prune_epg_from_country.py has skipped a file and consolidated the others
C25_PruneEpgSkipped ==
    /\ variant = "prune_epg"
    /\ cat_pc = "done"
    /\ OneOfSeveralCorrupt
    /\ WellFormedIds # {}
    /\ tv # <<>>

(***************************************************************************)
(* A matching run whose inputs are missing.                                *)
(***************************************************************************)
\* the run is past collect_country_codes, past ensure_country_epgs and the test of
\* its result, past parse_m3u
PastCodes == pc \notin {"codes", "epgs"}

PastSources == pc \notin {"codes", "epgs", "sources"}

PastPlaylist == pc \notin {"codes", "epgs", "sources", "playlist"}

\* every input of the run has been loaded: country codes, EPG files that parse and
\* their catalog, the playlist and its entries
InputsLoaded ==
    /\ country_codes # <<>>
    /\ epg_files # <<>>
    /\ m3u_in.exists
    /\ m3u = parse_m3u(variant, m3u_in.lines)
    /\ all_parse(files_of(epg_dir, epg_files))
    /\ chan_map = load_xml_channels(variant, files_of(epg_dir, epg_files)).chan_map
    /\ pc \in {"rewrite", "merge", "done"}

\* C26: a matching run aborts before it writes any output file (report,
\* rewritten playlist, pruned EPG) whenever no country code is resolved from
\* the favourites, no EPG source is available or the input playlist is
\* missing; an output file is only ever written after all inputs have been
\* loaded, and an aborted run has written none.
C26_NoOutputWithoutInputs ==
    /\ (PastCodes /\ country_codes = <<>>) => (pc = "aborted" /\ outputs = {})
    /\ (PastSources /\ epg_files = <<>>) => (pc = "aborted" /\ outputs = {})
    /\ (PastPlaylist /\ ~m3u_in.exists) => (pc = "aborted" /\ outputs = {})
    /\ outputs # {} => InputsLoaded
    /\ pc = "aborted" => outputs = {}
    /\ pc = "done" => outputs = {"report", "m3u_out", "epg_out"}

\* with country codes resolved and an EPG file downloaded, the run has ended at
\* the missing playlist, with no output file
C26_AbortedAtMissingPlaylist ==
    /\ pc = "aborted"
    /\ country_codes # <<>>
    /\ epg_files # <<>>
    /\ ~m3u_in.exists
    /\ outputs = {}

\* the favourites name no country and the run has ended with no output file
C26_AbortedWithoutCodes ==
    /\ pc = "aborted"
    /\ fav_csv.exists
    /\ fav_csv.rows # <<>>
    /\ country_codes = <<>>
    /\ outputs = {}

\* every download failed and no file was left from an earlier run: the run has
\* ended with no output file
C26_AbortedWithoutSources ==
    /\ pc = "aborted"
    /\ country_codes # <<>>
    /\ epg_files = <<>>
    /\ outputs = {}

\* a run with all its inputs has written the three files
C26_AllWritten == pc = "done" /\ outputs = {"report", "m3u_out", "epg_out"}

(***************************************************************************)
(* The unrestricted retry of the grabber.                                  *)
(***************************************************************************)
\* main has returned after run_tv_grab ran
GrabReturned == fetch_pc = "returned" /\ grab # NoGrab

\* C27: whenever the grabber rejects the invocation restricted to the
\* station ids and the retry without the restriction succeeds, the file at
\* the output path was written by prune_xmltv, its channel elements have
\* ids of the resolved station ids only and its programme elements refer to
\* such channels only; whenever the grabber, or its retry, fails, main
\* returns the grabber's non-zero code and prune_xmltv has written nothing.
C27_RetryPrunedOrCodeReturned ==
    /\ (GrabReturned /\ grab.retried /\ grab.returncode = 0) =>
          /\ ret = 0
          /\ sd_files.output_path.by = "prune_xmltv"
          /\ SeqSet(sd_files.output_path.channels) \subseteq station_ids
          /\ SeqSet(sd_files.output_path.programmes) \subseteq
                 (SeqSet(sd_files.output_path.channels) \cap station_ids)
    /\ (GrabReturned /\ grab.returncode # 0) =>
          /\ ret = grab.returncode
          /\ ret # 0
          /\ sd_files.output_path.by # "prune_xmltv"
          /\ sd_files.output_xml.by # "prune_xmltv"

\* the retry succeeded and main has returned with a pruned file that holds a
\* channel and a programme
C27_RetryPruned ==
    /\ GrabReturned
    /\ grab.retried
    /\ grab.returncode = 0
    /\ sd_files.output_path.by = "prune_xmltv"
    /\ sd_files.output_path.channels # <<>>
    /\ sd_files.output_path.programmes # <<>>

\* the retry failed and main has returned its code
C27_RetryFailed ==
    /\ GrabReturned
    /\ grab.retried
    /\ grab.returncode # 0
    /\ ret = grab.returncode
====
